---- MODULE Spec2Model ----
(***************************************************************************)
(* fast-forward: a Proxy that memoises the method calls of a wrapped       *)
(* object in a pluggable cache backend, under one of four cache modes.     *)
(*                                                                         *)
(* The model covers src/src/utils.ts (key generation, option guards, mode  *)
(* parsing), src/src/fast-forward.ts (mode resolution and the wrapped call *)
(* handler, with its promise continuation) and the InMemoryCache backend.  *)
(***************************************************************************)
EXTENDS Integers, Sequences, FiniteSets, Bags, TLC

VARIABLES
    env,        \* process.env.FASTFORWARD_MODE
    proxies,    \* the wraps in use: the cache and mode each closure captured
    caches,     \* contents of the backends: the caller's and a wrap's own
    inflight,   \* bag of the continuations attached to promises not yet settled
    last,       \* the last event: a wrap, a wrapped call, a promise settling
    target,     \* the value of the wrapped object's data property
    run,        \* the recursive method's execution in progress, or the last one
    lookup,     \* the wrapped call that is between its has and its get, if any
    called,         \* history: what the first call of each (method, args) returned
    firstResolved,  \* history: per key, the value of the first promise that resolved
    lastResolved,   \* history: per key, the value of the last promise that resolved
    lastUpd         \* history: per key, the result of the last UPDATE_ONLY call

vars == <<env, proxies, caches, inflight, last, target, run, lookup, called, firstResolved, lastResolved, lastUpd>>

-----------------------------------------------------------------------------
(* JavaScript values.  Every value is a record of the same shape so that    *)
(* any two can be compared: t is the type tag, n a number or boolean        *)
(* payload, s a string payload, kids the properties of an object (in        *)
(* insertion order) or the elements of an array.                            *)

JsUndefined == [t |-> "undefined", n |-> 0, s |-> "", kids |-> <<>>]

JsNull == [t |-> "null", n |-> 0, s |-> "", kids |-> <<>>]

JsTrue == [t |-> "boolean", n |-> 1, s |-> "", kids |-> <<>>]

Num(i) == [t |-> "number", n |-> i, s |-> "", kids |-> <<>>]

Str(x) == [t |-> "string", n |-> 0, s |-> x, kids |-> <<>>]

Prop(key, value) == [k |-> key, v |-> value]

Obj(props) == [t |-> "object", n |-> 0, s |-> "", kids |-> props]

Arr(elems) == [t |-> "array", n |-> 0, s |-> "", kids |-> [i \in DOMAIN elems |-> Prop("", elems[i])]]

\* An object that refers to itself: it has no finite spelling, so it is a tag.
JsCircular == [t |-> "circular", n |-> 0, s |-> "", kids |-> <<>>]

JsError == [t |-> "error", n |-> 0, s |-> "Test error", kids |-> <<>>]

HasProp(v, key) == \E i \in DOMAIN v.kids : v.kids[i].k = key

GetProp(v, key) == IF HasProp(v, key) THEN v.kids[CHOOSE i \in DOMAIN v.kids : v.kids[i].k = key].v ELSE JsUndefined

\* utils.ts isObject: not null, typeof 'object', not an array.
isObject(value) == value.t \in {"object", "circular", "error"}

-----------------------------------------------------------------------------
(* json-stable-stringify, as generateCacheKey uses it: JSON text with the   *)
(* keys of every object sorted; undefined is dropped from objects and       *)
(* written as null inside arrays; a circular structure throws.              *)

\* Array.prototype.sort's default order on the property names of the model.
KeyRank(key) == CASE key = "__ff_promise_result" -> 0
                  [] key = "a" -> 1
                  [] key = "b" -> 2
                  [] key = "c" -> 3
                  [] key = "value" -> 4
                  [] OTHER -> 5

RECURSIVE InsertProp(_, _)
InsertProp(sorted, p) ==
    IF sorted = <<>> THEN <<p>>
    ELSE IF KeyRank(p.k) < KeyRank(Head(sorted).k) THEN <<p>> \o sorted
    ELSE <<Head(sorted)>> \o InsertProp(Tail(sorted), p)

SortProps_Unsorted(props) == props

RECURSIVE SortProps(_)
SortProps(props) == IF props = <<>> THEN <<>> ELSE InsertProp(SortProps(Tail(props)), Head(props))

RECURSIVE StringifyThrows(_)
StringifyThrows(node) ==
    \/ node.t = "circular"
    \/ \E i \in DOMAIN node.kids : StringifyThrows(node.kids[i].v)

Quote(x) == "\"" \o x \o "\""

RECURSIVE stringify(_)
RECURSIVE JoinElems(_)
RECURSIVE JoinProps(_)

\* The text of a node, "" standing for the undefined that stringify returns.
stringify(node) ==
    CASE node.t = "undefined" -> ""
      [] node.t = "null" -> "null"
      [] node.t = "boolean" -> (IF node.n = 1 THEN "true" ELSE "false")
      [] node.t = "number" -> ToString(node.n)
      [] node.t = "string" -> Quote(node.s)
      [] node.t = "array" -> "[" \o JoinElems(node.kids) \o "]"
      [] OTHER -> "{" \o JoinProps(SortProps(node.kids)) \o "}"

\* var item = stringify(node, i, node[i]) || jsonStringify(null)
JoinElems(kids) ==
    IF kids = <<>> THEN ""
    ELSE LET text == stringify(Head(kids).v)
             item == IF text = "" THEN "null" ELSE text
         IN  IF Tail(kids) = <<>> THEN item ELSE item \o "," \o JoinElems(Tail(kids))

\* if (!value) continue
JoinProps(kids) ==
    IF kids = <<>> THEN ""
    ELSE LET text == stringify(Head(kids).v)
             rest == JoinProps(Tail(kids))
         IN  IF text = "" THEN rest
             ELSE IF rest = "" THEN Quote(Head(kids).k) \o ":" \o text
             ELSE Quote(Head(kids).k) \o ":" \o text \o "," \o rest

-----------------------------------------------------------------------------
(* utils.ts generateCacheKey *)

\* The key of a call whose key could not be built: JavaScript's undefined.
NoKey == "<undefined>"

\* No key transformer is passed: fast-forward.ts calls generateCacheKey(prop, args).
NoTransformer == "absent"

\* A key transformer maps (methodName, args) to {method, args}, or throws.
TransformerThrows(keyTransformer) == keyTransformer = "throws"

Transformed(keyTransformer, methodName, args) ==
    CASE keyTransformer = "constant" -> [method |-> "shared", args |-> <<>>]
      [] keyTransformer = "dropArgs" -> [method |-> methodName, args |-> <<>>]
      [] OTHER -> [method |-> methodName, args |-> args]

generateCacheKey_Uncaught(methodName, args, keyTransformer) ==
    LET given == keyTransformer # NoTransformer
        tr == IF given THEN Transformed(keyTransformer, methodName, args)
              ELSE [method |-> methodName, args |-> args]
    IN  IF given /\ TransformerThrows(keyTransformer) THEN "<throws>"
        ELSE IF StringifyThrows(Arr(tr.args)) THEN "<throws>"
        ELSE tr.method \o ":" \o stringify(Arr(tr.args))

generateCacheKey(methodName, args, keyTransformer) ==
    LET given == keyTransformer # NoTransformer
        tr == IF given THEN Transformed(keyTransformer, methodName, args)
              ELSE [method |-> methodName, args |-> args]
    IN  IF given /\ TransformerThrows(keyTransformer) THEN NoKey
        ELSE IF StringifyThrows(Arr(tr.args)) THEN NoKey
        ELSE tr.method \o ":" \o stringify(Arr(tr.args))

-----------------------------------------------------------------------------
(* types.ts CacheMode and utils.ts parseCacheMode.  An environment value is *)
(* a sequence of characters, or unset.                                      *)

Modes == {"ON", "OFF", "UPDATE_ONLY", "READ_ONLY"}

\* parseCacheMode's undefined.
NoMode == "undefined"

Unset == [set |-> FALSE, chars |-> <<>>]

EnvStr(cs) == [set |-> TRUE, chars |-> cs]

IsSpace(ch) == ch \in {" ", "\t"}

RECURSIVE TrimStart(_)
TrimStart(cs) == IF cs # <<>> /\ IsSpace(Head(cs)) THEN TrimStart(Tail(cs)) ELSE cs

RECURSIVE TrimEnd(_)
TrimEnd(cs) == IF cs # <<>> /\ IsSpace(cs[Len(cs)]) THEN TrimEnd(SubSeq(cs, 1, Len(cs) - 1)) ELSE cs

\* String.prototype.trim
Trim(cs) == TrimEnd(TrimStart(cs))

UpperChar(ch) ==
    CASE ch = "a" -> "A" [] ch = "d" -> "D" [] ch = "e" -> "E" [] ch = "f" -> "F"
      [] ch = "i" -> "I" [] ch = "v" -> "V"
      [] ch = "l" -> "L" [] ch = "n" -> "N" [] ch = "o" -> "O" [] ch = "p" -> "P"
      [] ch = "r" -> "R" [] ch = "t" -> "T" [] ch = "u" -> "U" [] ch = "x" -> "X"
      [] ch = "y" -> "Y" [] OTHER -> ch

\* String.prototype.toUpperCase
ToUpperCase(cs) == [i \in DOMAIN cs |-> UpperChar(cs[i])]

\* The characters of the names of the enum's values.
ModeChars(mode) ==
    CASE mode = "ON" -> <<"O", "N">>
      [] mode = "OFF" -> <<"O", "F", "F">>
      [] mode = "UPDATE_ONLY" -> <<"U", "P", "D", "A", "T", "E", "_", "O", "N", "L", "Y">>
      [] mode = "READ_ONLY" -> <<"R", "E", "A", "D", "_", "O", "N", "L", "Y">>

\* The text the switch of parseCacheMode matches against the enum's values.
SwitchOperand(cs) == ToUpperCase(cs)

parseCacheMode(value) ==
    IF ~value.set \/ value.chars = <<>> \/ Trim(value.chars) = <<>> THEN NoMode
    ELSE IF \E mode \in Modes : ModeChars(mode) = SwitchOperand(value.chars)
         THEN CHOOSE mode \in Modes : ModeChars(mode) = SwitchOperand(value.chars)
         ELSE NoMode

\* fast-forward.ts getCacheModeFromEnv
getCacheModeFromEnv == parseCacheMode(env)

-----------------------------------------------------------------------------
(* The second argument of fastForward.  shape says what was passed: nothing *)
(* ("undefined": the default parameter supplies a new InMemoryCache), a     *)
(* bare backend ("cache"), a plain object ("object") with the fields below, *)
(* or something that is no object at all ("other").  A field is "absent",   *)
(* or: cache a full backend ("backend") or an object lacking a backend      *)
(* method ("broken"); mode a string; key a function or not.                 *)

Options(shape, cache, mode, key) == [shape |-> shape, cache |-> cache, mode |-> mode, key |-> key]

NoOptions == Options("undefined", "absent", "absent", "absent")

BareCache == Options("cache", "absent", "absent", "absent")

\* utils.ts isCache, of the options value
isCache(value) == value.shape \in {"undefined", "cache"}

\* utils.ts isCache, of the options' cache field
isCacheField(field) == field = "backend"

isFastForwardOptions_CacheOnly(value) ==
    /\ value.shape = "object"
    /\ (value.cache = "absent" \/ isCacheField(value.cache))

\* utils.ts isFastForwardOptions
isFastForwardOptions(value) ==
    /\ value.shape = "object"
    /\ (value.cache = "absent" \/ isCacheField(value.cache))
    /\ (value.mode = "absent" \/ value.mode \in Modes)
    /\ (value.key = "absent" \/ value.key = "function")

ResolveCache_SharedDefault(options) ==
    IF isCache(options) THEN "given"
    ELSE IF isFastForwardOptions(options) /\ options.cache # "absent" THEN "given"
    ELSE "own"

\* fast-forward.ts fastForward, lines 42 and 52-59: which backend the wrap uses:
\* the caller's ("given") or a new InMemoryCache of its own ("own").
ResolveCache(options) ==
    IF isCache(options) THEN (IF options.shape = "cache" THEN "given" ELSE "own")
    ELSE IF isFastForwardOptions(options) /\ options.cache # "absent" THEN "given"
    ELSE "own"

-----------------------------------------------------------------------------
(* InMemoryCache: a Map from keys to values. *)

EmptyCache == [key \in {} |-> JsUndefined]

InMemoryCache_has(c, key) == key \in DOMAIN c

InMemoryCache_get(c, key) == IF key \in DOMAIN c THEN c[key] ELSE JsUndefined

InMemoryCache_set(c, key, value) == [x \in DOMAIN c \cup {key} |-> IF x = key THEN value ELSE c[x]]

\* Map.prototype.delete: the map without the key, and whether it held the key.
InMemoryCache_delete(c, key) == [cache |-> [x \in DOMAIN c \ {key} |-> c[x]], ret |-> key \in DOMAIN c]

InMemoryCache_clear(c) == EmptyCache

-----------------------------------------------------------------------------
(* The wrapped target: one synchronous and one asynchronous method.  What a *)
(* method returns is up to the target, so each invocation may return any    *)
(* value of Results; a promise may resolve to any of them, or reject.       *)

Methods == {"add", "fetch"}

IsAsync(m) == m = "fetch"

ArgLists == {<<JsNull>>, <<JsUndefined>>, <<Num(1)>>}

Results == {JsUndefined, JsNull, Num(1)}

\* What a call or a settled promise yields: k says what v is.
Ret(k, v) == [k |-> k, v |-> v]

Plain(v) == Ret("value", v)

\* The promise the target's method returned, as it is.
RawPromise == Ret("promise", JsUndefined)

\* result.then(...): the promise whose continuation stores the resolved value.
ThenPromise == Ret("then-promise", JsUndefined)

\* new Promise(resolve => setTimeout(() => resolve(v), 1)): it resolves to v.
TimerPromise(v) == Ret("timer-promise", v)

NotInvoked == Ret("none", JsUndefined)

Resolved(v) == Ret("resolved", v)

Rejected(e) == Ret("rejected", e)

IsPromise(r) == r.k \in {"promise", "then-promise", "timer-promise"}

\* method.apply(obj, args)
Apply(m) == IF IsAsync(m) THEN {RawPromise} ELSE {Plain(v) : v \in Results}

Settlements == {Resolved(v) : v \in Results} \cup {Rejected(JsError)}

-----------------------------------------------------------------------------
(* fast-forward.ts: the function the proxy returns for a method, lines      *)
(* 82-136.  A handler path yields: whether the method was invoked, the      *)
(* backend operations performed, what the method returned (src), what the   *)
(* wrapped call returns (ret) and the backend's contents afterwards.        *)

TaggedEntry(resolvedValue) == Obj(<<Prop("__ff_promise_result", JsTrue), Prop("value", resolvedValue)>>)

Path(invoked, ops, src, ret, c) == [invoked |-> invoked, ops |-> ops, src |-> src, ret |-> ret, cache |-> c]

ConsultsCache_OnOnly(mode) == mode = "ON"

\* line 93: mode === CacheMode.ON || mode === CacheMode.READ_ONLY
ConsultsCache(mode) == mode \in {"ON", "READ_ONLY"}

StoresResult_OnOnly(mode) == mode = "ON"

\* line 118: mode === CacheMode.ON || mode === CacheMode.UPDATE_ONLY
StoresResult(mode) == mode \in {"ON", "UPDATE_ONLY"}

Disabled_Storing(c, cacheKey, raw) == Path(1, <<"set">>, raw, raw, InMemoryCache_set(c, cacheKey, raw.v))

\* lines 87-90: caching is completely disabled
Disabled(c, cacheKey, raw) == Path(1, <<>>, raw, raw, c)

ReturnCached_Bare(cachedResult) ==
    IF ~isObject(cachedResult) THEN Plain(cachedResult)
    ELSE IF GetProp(cachedResult, "__ff_promise_result") = JsTrue
         THEN Plain(GetProp(cachedResult, "value"))
    ELSE Plain(cachedResult)

\* lines 94-106: what a hit returns for the entry read from the backend
ReturnCached(cachedResult) ==
    IF ~isObject(cachedResult) THEN Plain(cachedResult)
    ELSE IF GetProp(cachedResult, "__ff_promise_result") = JsTrue
         THEN TimerPromise(GetProp(cachedResult, "value"))
    ELSE Plain(cachedResult)

Execute_StoresAtInvocation(mode, c, cacheKey, raw) ==
    LET looked == IF ConsultsCache(mode) THEN <<"has">> ELSE <<>>
    IN  IF raw.k = "throws" THEN Path(1, looked, raw, raw, c)
        ELSE IF StoresResult(mode) /\ IsPromise(raw)
        THEN Path(1, looked \o <<"set">>, raw, ThenPromise, InMemoryCache_set(c, cacheKey, raw.v))
        ELSE IF StoresResult(mode)
        THEN Path(1, looked \o <<"set">>, raw, raw, InMemoryCache_set(c, cacheKey, raw.v))
        ELSE Path(1, looked, raw, raw, c)

Execute_LooksTwice(mode, c, cacheKey, raw) ==
    LET looked == IF ConsultsCache(mode) THEN <<"has", "has">> ELSE <<>>
    IN  IF raw.k = "throws" THEN Path(1, looked, raw, raw, c)
        ELSE IF StoresResult(mode) /\ IsPromise(raw) THEN Path(1, looked, raw, ThenPromise, c)
        ELSE IF StoresResult(mode)
        THEN Path(1, looked \o <<"set">>, raw, raw, InMemoryCache_set(c, cacheKey, raw.v))
        ELSE Path(1, looked, raw, raw, c)

Execute_CachesError(mode, c, cacheKey, raw) ==
    LET looked == IF ConsultsCache(mode) THEN <<"has">> ELSE <<>>
    IN  IF StoresResult(mode) /\ IsPromise(raw) THEN Path(1, looked, raw, ThenPromise, c)
        ELSE IF StoresResult(mode)
        THEN Path(1, looked \o <<"set">>, raw, raw, InMemoryCache_set(c, cacheKey, raw.v))
        ELSE Path(1, looked, raw, raw, c)

\* lines 114-135: call the original method, then store or attach the
\* continuation; what method.apply throws at line 115 leaves the handler there.
Execute(mode, c, cacheKey, raw) ==
    LET looked == IF ConsultsCache(mode) THEN <<"has">> ELSE <<>>
    IN  IF raw.k = "throws" THEN Path(1, looked, raw, raw, c)
        ELSE IF StoresResult(mode) /\ IsPromise(raw) THEN Path(1, looked, raw, ThenPromise, c)
        ELSE IF StoresResult(mode)
        THEN Path(1, looked \o <<"set">>, raw, raw, InMemoryCache_set(c, cacheKey, raw.v))
        ELSE Path(1, looked, raw, raw, c)

Handler_NoReadOnly(mode, c, cacheKey, raw) ==
    IF mode = "OFF" THEN Disabled(c, cacheKey, raw)
    ELSE IF ConsultsCache(mode) /\ InMemoryCache_has(c, cacheKey)
    THEN Path(0, <<"has", "get">>, NotInvoked, ReturnCached(InMemoryCache_get(c, cacheKey)), c)
    ELSE Execute(IF mode = "READ_ONLY" THEN "ON" ELSE mode, c, cacheKey, raw)

\* lines 82-136, up to the return: raw is what the method returns if invoked.
Handler(mode, c, cacheKey, raw) ==
    IF mode = "OFF" THEN Disabled(c, cacheKey, raw)
    ELSE IF ConsultsCache(mode) /\ InMemoryCache_has(c, cacheKey)
    THEN Path(0, <<"has", "get">>, NotInvoked, ReturnCached(InMemoryCache_get(c, cacheKey)), c)
    ELSE IF mode = "READ_ONLY" /\ ~InMemoryCache_has(c, cacheKey)
    THEN Path(0, <<"has", "has">>, NotInvoked, Plain(JsUndefined), c)
    ELSE Execute(mode, c, cacheKey, raw)

\* A promise's then-callback runs when the promise resolves, not when it rejects.
ContinuationRuns(settled) == settled.k = "resolved"

Continuation_Bare(c, cacheKey, settled) ==
    IF ContinuationRuns(settled) THEN InMemoryCache_set(c, cacheKey, settled.v) ELSE c

Continuation_DeletesOnRejection(c, cacheKey, settled) ==
    IF ContinuationRuns(settled) THEN InMemoryCache_set(c, cacheKey, TaggedEntry(settled.v))
    ELSE [x \in DOMAIN c \ {cacheKey} |-> c[x]]

Continuation_KeepsFirst(c, cacheKey, settled) ==
    IF ContinuationRuns(settled) /\ ~InMemoryCache_has(c, cacheKey)
    THEN InMemoryCache_set(c, cacheKey, TaggedEntry(settled.v))
    ELSE c

\* lines 121-128: the continuation of result.then, run when the method's
\* promise settles as `settled`
Continuation(c, cacheKey, settled) ==
    IF ContinuationRuns(settled) THEN InMemoryCache_set(c, cacheKey, TaggedEntry(settled.v)) ELSE c

\* What the promise result.then(...) settles as: the callback returns
\* resolvedValue (line 127); a rejection passes through.
ThenSettles(settled) == settled

-----------------------------------------------------------------------------
(* fast-forward.ts fastForward: the wrap's closure. *)

ResolveMode_EnvWins(options, envMode) ==
    IF envMode # NoMode THEN envMode
    ELSE IF ~isCache(options) /\ isFastForwardOptions(options) /\ options.mode # "absent" THEN options.mode
    ELSE "ON"

ResolveMode_BareIgnoresEnv(options, envMode) ==
    LET fromEnv == IF envMode # NoMode THEN envMode ELSE "ON"
    IN  IF isCache(options) THEN "ON"
        ELSE IF isFastForwardOptions(options) /\ options.mode # "absent" THEN options.mode
        ELSE fromEnv

\* lines 43-64: the mode the wrap captures
ResolveMode(options, envMode) ==
    LET fromEnv == IF envMode # NoMode THEN envMode ELSE "ON"
    IN  IF isCache(options) THEN fromEnv
        ELSE IF isFastForwardOptions(options) /\ options.mode # "absent" THEN options.mode
        ELSE fromEnv

Wrap(options, envValue) == [cache |-> ResolveCache(options), mode |-> ResolveMode(options, parseCacheMode(envValue))]

-----------------------------------------------------------------------------
(* State and actions. *)

MaxInflight == 2

\* The README's calculator.fibonacci is called with arguments up to 5.
FibArg == 5

FibArgs == 0 .. FibArg

\* A frame of fibonacci(n): phase 0 before the body runs, 1 while
\* fibonacci(n - 1) runs, 2 while fibonacci(n - 2) runs; acc is what
\* fibonacci(n - 1) returned.
Frame(n) == [n |-> n, phase |-> 0, acc |-> 0]

\* No execution yet: no frame, and the body has run for no argument.
Idle == [stack |-> <<>>, ret |-> 0, counts |-> [n \in FibArgs |-> 0], mode |-> "", cache |-> "", n |-> 0]

\* No wrapped call is between its has and its get.
NoLookup == [wrap |-> <<>>, m |-> "", a |-> <<>>, key |-> ""]

Pending(cacheId, cacheKey) == [cache |-> cacheId, key |-> cacheKey]

\* An argument list that holds a self-referential object.
UnserialisableArgLists == {<<JsCircular>>}

\* line 85, for every call the model makes (evaluated once).
CacheKeys == [m \in Methods, a \in ArgLists \cup UnserialisableArgLists |-> generateCacheKey(m, a, NoTransformer)]

\* Whether the handler reaches method.apply (line 89 or line 115).
Invokes(mode, c, cacheKey) == Handler(mode, c, cacheKey, NotInvoked).invoked = 1

\* A call of method m with arguments a through the wrap pr.
Call(pr, m, a) ==
    /\ pr \in proxies
    /\ \E raw \in IF Invokes(pr.mode, caches[pr.cache], CacheKeys[m, a]) THEN Apply(m) ELSE {NotInvoked} :
        LET cacheKey == CacheKeys[m, a]
            h == Handler(pr.mode, caches[pr.cache], cacheKey, raw)
        IN  /\ h.ret.k = "then-promise" => BagCardinality(inflight) < MaxInflight
            /\ inflight' = IF h.ret.k = "then-promise"
                           THEN inflight (+) SetToBag({Pending(pr.cache, cacheKey)})
                           ELSE inflight
            /\ caches' = [caches EXCEPT ![pr.cache] = h.cache]
            /\ last' = [act |-> "call", mode |-> pr.mode, cache |-> pr.cache, m |-> m, a |-> a,
                        key |-> cacheKey, invoked |-> h.invoked, ops |-> h.ops,
                        src |-> h.src, ret |-> h.ret]
    /\ UNCHANGED <<env, proxies, target, run, lookup>>

\* The promise of an invoked asynchronous method settles and the continuation
\* attached to it runs.
Settle(pending) ==
    /\ BagIn(pending, inflight)
    /\ \E settled \in Settlements :
        /\ caches' = [caches EXCEPT ![pending.cache] = Continuation(@, pending.key, settled)]
        /\ last' = [act |-> "settle", mode |-> "", cache |-> pending.cache, m |-> "", a |-> <<>>,
                    key |-> pending.key, invoked |-> 0,
                    ops |-> IF ContinuationRuns(settled) THEN <<"set">> ELSE <<>>,
                    src |-> settled, ret |-> ThenSettles(settled)]
    /\ inflight' = inflight (-) SetToBag({pending})
    /\ UNCHANGED <<env, proxies, target, run, lookup>>

\* fastForward(target, options): the new wrap replaces the ones in use.
FastForward(options) ==
    /\ inflight = EmptyBag
    /\ proxies' = {Wrap(options, env)}
    /\ caches' = [caches EXCEPT !.own = EmptyCache]
    /\ last' = [act |-> "wrap", options |-> options, envAt |-> env]
    /\ UNCHANGED <<env, inflight, target, run, lookup>>

\* process.env.FASTFORWARD_MODE = value, or delete process.env.FASTFORWARD_MODE
SetEnv(value) ==
    /\ env # value
    /\ env' = value
    /\ UNCHANGED <<proxies, caches, inflight, last, target, run, lookup>>

\* One wrap per mode over the caller's backend, as the cache-modes example builds.
Init ==
    /\ env = Unset
    /\ proxies = {Wrap(Options("object", "backend", mode, "absent"), Unset) : mode \in Modes}
    /\ caches = [given |-> EmptyCache, own |-> EmptyCache]
    /\ inflight = EmptyBag
    /\ last = [act |-> "init"]
    /\ target = Num(42)
    /\ run = Idle
    /\ lookup = NoLookup
    /\ called = <<>>
    /\ firstResolved = EmptyCache
    /\ lastResolved = EmptyCache
    /\ lastUpd = EmptyCache

-----------------------------------------------------------------------------
(* History: what the calls made so far returned, read off the event. *)

IsCall(e) == e.act = "call"

IsSettle(e) == e.act = "settle"

NoHistory == UNCHANGED <<called, firstResolved, lastResolved, lastUpd>>

HistoryOn ==
    /\ called' = IF IsCall(last') /\ ~IsAsync(last'.m) /\ <<last'.m, last'.a>> \notin DOMAIN called
                 THEN called @@ (<<last'.m, last'.a>> :> last'.ret)
                 ELSE called
    /\ firstResolved' = IF IsSettle(last') /\ last'.ret.k = "resolved" /\ last'.key \notin DOMAIN firstResolved
                        THEN InMemoryCache_set(firstResolved, last'.key, last'.ret.v)
                        ELSE firstResolved
    /\ lastResolved' = IF IsSettle(last') /\ last'.ret.k = "resolved"
                       THEN InMemoryCache_set(lastResolved, last'.key, last'.ret.v)
                       ELSE lastResolved
    /\ UNCHANGED lastUpd

HistoryUpd ==
    /\ lastUpd' = IF IsCall(last') /\ last'.mode = "UPDATE_ONLY" /\ last'.ret.k = "value"
                  THEN InMemoryCache_set(lastUpd, last'.key, last'.ret.v)
                  ELSE lastUpd
    /\ UNCHANGED <<called, firstResolved, lastResolved>>

-----------------------------------------------------------------------------
(* Specifications. *)

\* Calls through the four wraps, in any order, and promises settling.
Next ==
    \/ \E pr \in proxies, m \in Methods, a \in ArgLists : Call(pr, m, a) /\ NoHistory
    \/ \E pending \in BagToSet(inflight) : Settle(pending) /\ NoHistory

Spec == Init /\ [][Next]_vars

\* Calls through the NORMAL wrap alone: nothing else touches the backend.
NextOn ==
    \/ \E pr \in proxies, m \in Methods, a \in ArgLists : pr.mode = "ON" /\ Call(pr, m, a) /\ HistoryOn
    \/ \E pending \in BagToSet(inflight) : Settle(pending) /\ HistoryOn

SpecOn == Init /\ [][NextOn]_vars

\* Calls through the UPDATE_ONLY and the NORMAL wrap.
NextUpd ==
    \/ \E pr \in proxies, m \in Methods, a \in ArgLists :
        pr.mode \in {"ON", "UPDATE_ONLY"} /\ Call(pr, m, a) /\ HistoryUpd
    \/ \E pending \in BagToSet(inflight) : Settle(pending) /\ HistoryUpd

SpecUpd == Init /\ [][NextUpd]_vars

\* The environment values and the options fastForward is given.
EnvValues ==
    {Unset, EnvStr(<<>>), EnvStr(<<" ">>)}
    \cup {EnvStr(ModeChars(mode)) : mode \in Modes}
    \cup {EnvStr(<<"o", "n">>), EnvStr(<<"o", "f", "f">>), EnvStr(<<"O", "f", "f">>),
          EnvStr(<<"r", "e", "a", "d", "_", "o", "n", "l", "y">>),
          EnvStr(<<"u", "p", "d", "a", "t", "e", "_", "o", "n", "l", "y">>),
          EnvStr(<<" ", "o", "f", "f", " ">>), EnvStr(<<"R", "E", "A", "D", "_", "O", "N", "L", "Y", " ">>),
          EnvStr(<<"I", "N", "V", "A", "L", "I", "D">>)}

AllOptions ==
    {NoOptions, BareCache, Options("other", "absent", "absent", "absent")}
    \cup {Options("object", cache, mode, key) :
            cache \in {"absent", "backend", "broken"},
            mode \in {"absent", "BOGUS"} \cup Modes,
            key \in {"absent", "function", "notFunction"}}

\* Wrapping under every environment value.
NextMode ==
    \/ \E value \in EnvValues : SetEnv(value) /\ NoHistory
    \/ \E options \in AllOptions : FastForward(options) /\ NoHistory

SpecMode == Init /\ [][NextMode]_vars

-----------------------------------------------------------------------------
(* fast-forward.ts: the get trap, lines 67-77, for a property that is not a  *)
(* method.  The wrapped object has a data property, whose value the target  *)
(* may reassign, and a property `nested`, an object with one synchronous    *)
(* method.                                                                  *)

NestedObject == Obj(<<>>)

NestedMethods == {"deepMethod"}

NestedArgLists == {<<Num(1)>>, <<JsNull>>}

\* line 85, for the calls of the nested object's method (evaluated once).
NestedKeys == [m \in NestedMethods, a \in NestedArgLists |-> generateCacheKey(m, a, NoTransformer)]

NestedWrap_ReadsEnv(pr, envValue) ==
    LET w == Wrap(Options("object", "backend", "absent", "absent"), envValue)
    IN  [cache |-> IF w.cache = "given" THEN pr.cache ELSE "own", mode |-> w.mode]

NestedWrap_OwnCache(pr, envValue) ==
    LET w == Wrap(Options("object", "absent", pr.mode, "absent"), envValue)
    IN  [cache |-> IF w.cache = "given" THEN pr.cache ELSE "own", mode |-> w.mode]

\* line 74: fastForward(value, { cache, mode }), the cache and the mode being
\* those the parent's closure captured.
NestedWrap(pr, envValue) ==
    LET w == Wrap(Options("object", "backend", pr.mode, "absent"), envValue)
    IN  [cache |-> IF w.cache = "given" THEN pr.cache ELSE "own", mode |-> w.mode]

GetTrap_WrapsArrays(pr, value, envValue) ==
    IF isObject(value) \/ value.t = "array" THEN Ret("proxy", NestedWrap(pr, envValue))
    ELSE Plain(value)

\* lines 68-77: what reading a non-method property through the proxy returns
GetTrap(pr, value, envValue) ==
    IF isObject(value) THEN Ret("proxy", NestedWrap(pr, envValue))
    ELSE Plain(value)

\* The values the target gives its data property.
TargetValues == {Num(42), Num(100), JsNull, Arr(<<Num(1)>>), Obj(<<Prop("a", Num(1))>>)}

\* target.data = value
Assign(value) ==
    /\ target # value
    /\ target' = value
    /\ UNCHANGED <<env, proxies, caches, inflight, last, run, lookup>>

\* proxy.data
Read(pr) ==
    /\ pr \in proxies
    /\ last' = [act |-> "read", mode |-> pr.mode, cache |-> pr.cache, ops |-> <<>>,
                ret |-> GetTrap(pr, target, env)]
    /\ UNCHANGED <<env, proxies, caches, inflight, target, run, lookup>>

\* proxy.nested.deepMethod(...a): the get trap wraps the nested object and the
\* call goes through the handler of that wrap.
NestedCall(pr, m, a) ==
    /\ pr \in proxies
    /\ LET child == GetTrap(pr, NestedObject, env).v
           cacheKey == NestedKeys[m, a]
       IN  \E raw \in IF Invokes(child.mode, caches[child.cache], cacheKey) THEN Apply(m) ELSE {NotInvoked} :
               LET h == Handler(child.mode, caches[child.cache], cacheKey, raw)
               IN  /\ caches' = [caches EXCEPT ![child.cache] = h.cache]
                   /\ last' = [act |-> "nested", parent |-> pr, envAt |-> env,
                               mode |-> child.mode, cache |-> child.cache, m |-> m, a |-> a,
                               key |-> cacheKey, invoked |-> h.invoked, ops |-> h.ops,
                               src |-> h.src, ret |-> h.ret]
    /\ UNCHANGED <<env, proxies, inflight, target, run, lookup>>

IsNested(e) == e.act = "nested"

IsRead(e) == e.act = "read"

\* The nested calls made so far through a NORMAL wrap, read off the event.
HistoryNested ==
    /\ called' = IF IsNested(last') /\ last'.parent.mode = "ON" /\ <<last'.m, last'.a>> \notin DOMAIN called
                 THEN called @@ (<<last'.m, last'.a>> :> last'.ret)
                 ELSE called
    /\ UNCHANGED <<firstResolved, lastResolved, lastUpd>>

\* The environment values set between the calls.
EnvNested ==
    {Unset, EnvStr(ModeChars("OFF")), EnvStr(<<"r", "e", "a", "d", "_", "o", "n", "l", "y">>)}

\* Wraps that take their mode from the environment, calls through them and
\* through the wraps of their nested object, while the environment changes.
NextNested ==
    \/ \E value \in EnvNested : SetEnv(value) /\ NoHistory
    \/ FastForward(Options("object", "backend", "absent", "absent")) /\ NoHistory
    \/ \E pr \in proxies : Call(pr, "add", <<Num(1)>>) /\ NoHistory
    \/ \E pr \in proxies, m \in NestedMethods, a \in NestedArgLists : NestedCall(pr, m, a) /\ NoHistory

SpecNested == Init /\ [][NextNested]_vars

\* Calls through the four wraps and through the wraps of their nested object.
NextDeep ==
    \/ \E pr \in proxies : Call(pr, "add", <<Num(1)>>) /\ NoHistory
    \/ \E pr \in proxies, m \in NestedMethods, a \in NestedArgLists : NestedCall(pr, m, a) /\ HistoryNested

SpecDeep == Init /\ [][NextDeep]_vars

\* Reads of the data property through the four wraps, between calls and
\* reassignments.
NextProps ==
    \/ \E value \in TargetValues : Assign(value) /\ NoHistory
    \/ \E pr \in proxies : Read(pr) /\ NoHistory
    \/ \E pr \in proxies, a \in ArgLists : Call(pr, "add", a) /\ NoHistory

SpecProps == Init /\ [][NextProps]_vars

-----------------------------------------------------------------------------
(* generateCacheKey on its own: a method name, two argument lists and a key  *)
(* transformer are drawn, the keys of both lists are generated, and the two *)
(* calls are made, one after the other, through a NORMAL wrap over an empty *)
(* backend.                                                                 *)

KeyValues ==
    {JsUndefined, JsNull, Str(""), Num(1), Num(2), JsCircular,
     Obj(<<Prop("a", Num(1)), Prop("b", Num(2))>>),
     Obj(<<Prop("b", Num(2)), Prop("a", Num(1))>>),
     Obj(<<Prop("a", Obj(<<Prop("b", Num(2)), Prop("c", JsNull)>>))>>),
     Obj(<<Prop("a", Obj(<<Prop("c", JsNull), Prop("b", Num(2))>>))>>)}

KeyArgLists ==
    {<<v>> : v \in KeyValues}
    \cup {<<v, w>> : v \in {JsUndefined, JsNull, Num(1), Num(2)}, w \in {JsUndefined, JsNull, Num(1), Num(2)}}

KeyTransformers == {NoTransformer, "constant", "dropArgs", "throws"}

InitKey ==
    /\ env = Unset
    /\ proxies = {Wrap(BareCache, Unset)}
    /\ caches = [given |-> EmptyCache, own |-> EmptyCache]
    /\ inflight = EmptyBag
    /\ last \in {[act |-> "args", m |-> m, a1 |-> a1, a2 |-> a2, tr |-> tr] :
                    m \in Methods, a1 \in KeyArgLists, a2 \in KeyArgLists, tr \in KeyTransformers}
    /\ target = Num(42)
    /\ run = Idle
    /\ lookup = NoLookup
    /\ called = <<>>
    /\ firstResolved = EmptyCache
    /\ lastResolved = EmptyCache
    /\ lastUpd = EmptyCache

\* generateCacheKey(m, a1, tr) and generateCacheKey(m, a2, tr)
GenerateKeys ==
    /\ last.act = "args"
    /\ last' = [act |-> "keys", m |-> last.m, a1 |-> last.a1, a2 |-> last.a2, tr |-> last.tr,
                k1 |-> generateCacheKey(last.m, last.a1, last.tr),
                k2 |-> generateCacheKey(last.m, last.a2, last.tr)]
    /\ UNCHANGED <<env, proxies, caches, inflight, target, run, lookup>>

\* proxy.m(...a1), then proxy.m(...a2), of the synchronous method: the handler
\* builds the key at line 85, without a transformer.
KeyedCall(pr) ==
    /\ pr \in proxies
    /\ ~IsAsync(last.m)
    /\ \/ last.act = "keys" /\ last.tr = NoTransformer
       \/ last.act = "keyed" /\ last.n = 1
    /\ LET n == IF last.act = "keys" THEN 1 ELSE 2
           a == IF n = 1 THEN last.a1 ELSE last.a2
           cacheKey == generateCacheKey(last.m, a, NoTransformer)
       IN  \E raw \in IF Invokes(pr.mode, caches[pr.cache], cacheKey) THEN Apply(last.m) ELSE {NotInvoked} :
               LET h == Handler(pr.mode, caches[pr.cache], cacheKey, raw)
               IN  /\ caches' = [caches EXCEPT ![pr.cache] = h.cache]
                   /\ last' = [act |-> "keyed", n |-> n, m |-> last.m, a1 |-> last.a1, a2 |-> last.a2,
                               mode |-> pr.mode, cache |-> pr.cache, key |-> cacheKey,
                               invoked |-> h.invoked, ops |-> h.ops, src |-> h.src, ret |-> h.ret,
                               first |-> IF n = 1 THEN h.ret ELSE last.ret]
    /\ UNCHANGED <<env, proxies, inflight, target, run, lookup>>

NextKey ==
    \/ GenerateKeys /\ NoHistory
    \/ \E pr \in proxies : KeyedCall(pr) /\ NoHistory

SpecKey == InitKey /\ [][NextKey]_vars

-----------------------------------------------------------------------------
(* Calls whose arguments cannot be serialised, next to calls whose arguments *)
(* can, through the four wraps.                                             *)

NextNoKey ==
    \/ \E pr \in proxies, m \in Methods, a \in UnserialisableArgLists \cup {<<Num(1)>>} :
        Call(pr, m, a) /\ NoHistory
    \/ \E pending \in BagToSet(inflight) : Settle(pending) /\ NoHistory

SpecNoKey == Init /\ [][NextNoKey]_vars

-----------------------------------------------------------------------------
(* filesystem-cache.ts FileSystemCache: one JSON file per entry, named by    *)
(* the SHA-256 hash of the key.  The backend's contents are the files of    *)
(* its namespace directory: a function from file paths to the value that    *)
(* JSON.parse reads back from the file.                                     *)

\* What a backend operation or a call throws.
Thrown(e) == Ret("throws", e)

\* The TypeError of hash.update(undefined).
TypeError == [t |-> "error", n |-> 0, s |-> "ERR_INVALID_ARG_TYPE", kids |-> <<>>]

\* getFilePath: crypto's update throws for a key that is not a string.
getFilePath_Throws(key) == key = NoKey

\* getFilePath, for a string key.
getFilePath(key) == "sha256(" \o key \o ").json"

\* JSON.stringify then JSON.parse of a value inside the entry: undefined is
\* dropped from objects and becomes null inside arrays.
RECURSIVE JsonRoundTrip(_)
RECURSIVE JsonProps(_)
JsonProps(kids) ==
    IF kids = <<>> THEN <<>>
    ELSE IF Head(kids).v.t = "undefined" THEN JsonProps(Tail(kids))
    ELSE <<Prop(Head(kids).k, JsonRoundTrip(Head(kids).v))>> \o JsonProps(Tail(kids))

JsonRoundTrip(value) ==
    CASE value.t = "array" ->
            [value EXCEPT !.kids = [i \in DOMAIN value.kids |->
                Prop("", IF value.kids[i].v.t = "undefined" THEN JsNull ELSE JsonRoundTrip(value.kids[i].v))]]
      [] value.t = "object" -> [value EXCEPT !.kids = JsonProps(value.kids)]
      [] OTHER -> value

FileSystemCache_has(files, key) == getFilePath(key) \in DOMAIN files

\* A file whose text is not the JSON of an entry.
Corrupt == [t |-> "corrupt", n |-> 0, s |-> "not valid json", kids |-> <<>>]

FileSystemCache_get_Uncaught(files, key) ==
    IF getFilePath(key) \in DOMAIN files THEN files[getFilePath(key)] ELSE JsUndefined

\* get: JSON.parse throws for a corrupted file, and the catch returns undefined.
FileSystemCache_get(files, key) ==
    IF getFilePath(key) \notin DOMAIN files THEN JsUndefined
    ELSE IF files[getFilePath(key)] = Corrupt THEN JsUndefined
    ELSE files[getFilePath(key)]

\* set: JSON.stringify throws for a self-referential value.
FileSystemCache_set_Throws(key, value) == getFilePath_Throws(key) \/ StringifyThrows(value)

FileSystemCache_set(files, key, value) ==
    [x \in DOMAIN files \cup {getFilePath(key)} |->
        IF x = getFilePath(key) THEN JsonRoundTrip(value) ELSE files[x]]

\* fast-forward.ts lines 82-136 over a FileSystemCache: an error a backend
\* operation throws leaves the handler, or rejects the promise the handler
\* returned when the continuation throws it.
FileHandler(mode, files, cacheKey, raw) ==
    IF mode = "OFF" THEN Path(1, <<>>, raw, raw, files)
    ELSE IF ConsultsCache(mode) /\ getFilePath_Throws(cacheKey)
    THEN Path(0, <<"has">>, NotInvoked, Thrown(TypeError), files)
    ELSE IF ConsultsCache(mode) /\ FileSystemCache_has(files, cacheKey)
    THEN Path(0, <<"has", "get">>, NotInvoked, ReturnCached(FileSystemCache_get(files, cacheKey)), files)
    ELSE IF mode = "READ_ONLY"
    THEN Path(0, <<"has", "has">>, NotInvoked, Plain(JsUndefined), files)
    ELSE LET looked == IF ConsultsCache(mode) THEN <<"has">> ELSE <<>>
         IN  IF StoresResult(mode) /\ IsPromise(raw) THEN Path(1, looked, raw, ThenPromise, files)
             ELSE IF StoresResult(mode) /\ FileSystemCache_set_Throws(cacheKey, raw.v)
             THEN Path(1, looked \o <<"set">>, raw, Thrown(TypeError), files)
             ELSE IF StoresResult(mode)
             THEN Path(1, looked \o <<"set">>, raw, raw, FileSystemCache_set(files, cacheKey, raw.v))
             ELSE Path(1, looked, raw, raw, files)

\* lines 121-128 over a FileSystemCache
FileContinuation(files, cacheKey, settled) ==
    IF ContinuationRuns(settled) /\ ~FileSystemCache_set_Throws(cacheKey, TaggedEntry(settled.v))
    THEN FileSystemCache_set(files, cacheKey, TaggedEntry(settled.v))
    ELSE files

\* What result.then(...) settles as over a FileSystemCache.
FileThenSettles(cacheKey, settled) ==
    IF ContinuationRuns(settled) /\ FileSystemCache_set_Throws(cacheKey, TaggedEntry(settled.v))
    THEN Rejected(TypeError)
    ELSE settled

\* A call of method m with arguments a through the wrap pr, whose backend is
\* a FileSystemCache.
FileCall(pr, m, a) ==
    /\ pr \in proxies
    /\ LET cacheKey == CacheKeys[m, a]
           invokes == FileHandler(pr.mode, caches[pr.cache], cacheKey, NotInvoked).invoked = 1
       IN  \E raw \in IF invokes THEN Apply(m) ELSE {NotInvoked} :
               LET h == FileHandler(pr.mode, caches[pr.cache], cacheKey, raw)
               IN  /\ h.ret.k = "then-promise" => BagCardinality(inflight) < MaxInflight
                   /\ inflight' = IF h.ret.k = "then-promise"
                                  THEN inflight (+) SetToBag({Pending(pr.cache, cacheKey)})
                                  ELSE inflight
                   /\ caches' = [caches EXCEPT ![pr.cache] = h.cache]
                   /\ last' = [act |-> "filecall", mode |-> pr.mode, cache |-> pr.cache, m |-> m, a |-> a,
                               key |-> cacheKey, invoked |-> h.invoked, ops |-> h.ops,
                               src |-> h.src, ret |-> h.ret]
    /\ UNCHANGED <<env, proxies, target, run, lookup>>

FileSettle(pending) ==
    /\ BagIn(pending, inflight)
    /\ \E settled \in Settlements :
        /\ caches' = [caches EXCEPT ![pending.cache] = FileContinuation(@, pending.key, settled)]
        /\ last' = [act |-> "filesettle", mode |-> "", cache |-> pending.cache, m |-> "", a |-> <<>>,
                    key |-> pending.key, invoked |-> 0,
                    ops |-> IF ContinuationRuns(settled) THEN <<"set">> ELSE <<>>,
                    src |-> settled, ret |-> FileThenSettles(pending.key, settled)]
    /\ inflight' = inflight (-) SetToBag({pending})
    /\ UNCHANGED <<env, proxies, target, run, lookup>>

IsFileCall(e) == e.act = "filecall"

\* Calls through the four wraps over a FileSystemCache, with arguments that
\* can and that cannot be serialised.
NextFile ==
    \/ \E pr \in proxies, m \in Methods, a \in UnserialisableArgLists \cup {<<Num(1)>>} :
        FileCall(pr, m, a) /\ NoHistory
    \/ \E pending \in BagToSet(inflight) : FileSettle(pending) /\ NoHistory

SpecFile == Init /\ [][NextFile]_vars

-----------------------------------------------------------------------------
(* A wrap whose options carry a key transformer: { cache, key }.  The calls  *)
(* go through it and through the wraps of its nested object.                *)

InitTransformer ==
    /\ env = Unset
    /\ proxies = {Wrap(Options("object", "backend", "absent", "function"), Unset)}
    /\ caches = [given |-> EmptyCache, own |-> EmptyCache]
    /\ inflight = EmptyBag
    /\ last = [act |-> "wrap", options |-> Options("object", "backend", "absent", "function"), envAt |-> Unset]
    /\ target = Num(42)
    /\ run = Idle
    /\ lookup = NoLookup
    /\ called = <<>>
    /\ firstResolved = EmptyCache
    /\ lastResolved = EmptyCache
    /\ lastUpd = EmptyCache

NextTransformer ==
    \/ \E pr \in proxies, a \in ArgLists : Call(pr, "add", a) /\ HistoryOn
    \/ \E pr \in proxies, m \in NestedMethods, a \in NestedArgLists : NestedCall(pr, m, a) /\ HistoryNested

SpecTransformer == InitTransformer /\ [][NextTransformer]_vars

-----------------------------------------------------------------------------
(* The legacy shorthand: fastForward(target, backend) next to                *)
(* fastForward(target, { cache: backend }).  The same target is wrapped both *)
(* ways, each wrap over a backend of its own (`given` and `twin`), and every *)
(* call is made through both.                                               *)

ShorthandOptions == Options("object", "backend", "absent", "absent")

\* lines 37-64, the caller's backend being the one named
WrapOver(options, envValue, backend) ==
    LET w == Wrap(options, envValue)
    IN  [cache |-> IF w.cache = "given" THEN backend ELSE "own", mode |-> w.mode]

\* The environment values the two wraps are made under.
EnvShorthand ==
    {Unset, EnvStr(ModeChars("OFF")), EnvStr(ModeChars("UPDATE_ONLY")),
     EnvStr(<<"r", "e", "a", "d", "_", "o", "n", "l", "y">>),
     EnvStr(<<"I", "N", "V", "A", "L", "I", "D">>)}

ShorthandArgLists == {<<Num(1)>>}

InitShorthand ==
    /\ env = Unset
    /\ proxies = {WrapOver(BareCache, Unset, "given"), WrapOver(ShorthandOptions, Unset, "twin")}
    /\ caches = [given |-> EmptyCache, own |-> EmptyCache, twin |-> EmptyCache]
    /\ inflight = EmptyBag
    /\ last = [act |-> "init"]
    /\ target = Num(42)
    /\ run = Idle
    /\ lookup = NoLookup
    /\ called = <<>>
    /\ firstResolved = EmptyCache
    /\ lastResolved = EmptyCache
    /\ lastUpd = EmptyCache

\* ff(target, backend) and ff(target, { cache: twin }), under the environment
\* as it is now; the backends keep their entries.
WrapBoth ==
    /\ inflight = EmptyBag
    /\ proxies' = {WrapOver(BareCache, env, "given"), WrapOver(ShorthandOptions, env, "twin")}
    /\ last' = [act |-> "wrapboth", envAt |-> env]
    /\ UNCHANGED <<env, caches, inflight, target, run, lookup>>

\* What one of the two wraps did in a call made through both.
Side(pr, h) == [mode |-> pr.mode, invoked |-> h.invoked, ops |-> h.ops, src |-> h.src, ret |-> h.ret]

\* The same call through both wraps; where both invoke the method it returns
\* the same to both.
PairCall(m, a) ==
    \E bare \in proxies, opt \in proxies, raw \in Apply(m) :
        /\ bare.cache = "given"
        /\ opt.cache = "twin"
        /\ LET cacheKey == CacheKeys[m, a]
               h1 == Handler(bare.mode, caches[bare.cache], cacheKey,
                             IF Invokes(bare.mode, caches[bare.cache], cacheKey) THEN raw ELSE NotInvoked)
               h2 == Handler(opt.mode, caches[opt.cache], cacheKey,
                             IF Invokes(opt.mode, caches[opt.cache], cacheKey) THEN raw ELSE NotInvoked)
               p1 == IF h1.ret.k = "then-promise" THEN SetToBag({Pending(bare.cache, cacheKey)}) ELSE EmptyBag
               p2 == IF h2.ret.k = "then-promise" THEN SetToBag({Pending(opt.cache, cacheKey)}) ELSE EmptyBag
           IN  /\ BagCardinality(inflight (+) p1 (+) p2) <= MaxInflight
               /\ inflight' = inflight (+) p1 (+) p2
               /\ caches' = [caches EXCEPT ![bare.cache] = h1.cache, ![opt.cache] = h2.cache]
               /\ last' = [act |-> "pair", m |-> m, a |-> a, key |-> cacheKey,
                           bare |-> Side(bare, h1), options |-> Side(opt, h2)]
        /\ UNCHANGED <<env, proxies, target, run, lookup>>

\* The promises the method returned to the two wraps for one call settle the
\* same way, and the continuation attached by each wrap runs.
PairSettle(cacheKey) ==
    /\ \E pending \in BagToSet(inflight) : pending.key = cacheKey
    /\ \E settled \in Settlements :
        LET waits(id) == BagIn(Pending(id, cacheKey), inflight)
            after(id) == IF waits(id) THEN Continuation(caches[id], cacheKey, settled) ELSE caches[id]
            side(id) == [waited |-> waits(id),
                         ops |-> IF waits(id) /\ ContinuationRuns(settled) THEN <<"set">> ELSE <<>>,
                         ret |-> ThenSettles(settled)]
        IN  /\ caches' = [id \in DOMAIN caches |-> after(id)]
            /\ inflight' = [pending \in {x \in BagToSet(inflight) : x.key # cacheKey} |-> inflight[pending]]
            /\ last' = [act |-> "pairsettle", key |-> cacheKey, src |-> settled,
                        bare |-> side("given"), options |-> side("twin")]
    /\ UNCHANGED <<env, proxies, target, run, lookup>>

IsPair(e) == e.act \in {"pair", "pairsettle"}

NextShorthand ==
    \/ \E value \in EnvShorthand : SetEnv(value) /\ NoHistory
    \/ WrapBoth /\ NoHistory
    \/ \E m \in Methods, a \in ShorthandArgLists : PairCall(m, a) /\ NoHistory
    \/ \E m \in Methods, a \in ShorthandArgLists : PairSettle(CacheKeys[m, a]) /\ NoHistory

SpecShorthand == InitShorthand /\ [][NextShorthand]_vars

-----------------------------------------------------------------------------
(* Wraps made without a backend: fastForward(target) and fastForward(target, *)
(* options) with no cache in the options.  Each call of fastForward          *)
(* evaluates new InMemoryCache(); the program holds two such wraps at a      *)
(* time, in two variables, and a backend is named after the variable of its  *)
(* wrap.                                                                     *)

OwnIds == {"own", "own2"}

FreshOptions == {NoOptions, Options("object", "absent", "absent", "absent")}

InitFresh ==
    /\ env = Unset
    /\ proxies = {}
    /\ caches = [given |-> EmptyCache, own |-> EmptyCache, own2 |-> EmptyCache]
    /\ inflight = EmptyBag
    /\ last = [act |-> "init"]
    /\ target = Num(42)
    /\ run = Idle
    /\ lookup = NoLookup
    /\ called = <<>>
    /\ firstResolved = EmptyCache
    /\ lastResolved = EmptyCache
    /\ lastUpd = EmptyCache

\* id = fastForward(target, options): the new InMemoryCache of lines 39 and 42
\* is empty, and the wrap the variable held before is dropped.
FreshWrap(options, id) ==
    LET w == Wrap(options, env)
        made == [cache |-> IF w.cache = "own" THEN id ELSE "given", mode |-> w.mode]
    IN  /\ proxies' = {pr \in proxies : pr.cache # id} \cup {made}
        /\ caches' = [caches EXCEPT ![id] = EmptyCache]
        /\ last' = [act |-> "fresh", options |-> options, id |-> id, made |-> made]
        /\ UNCHANGED <<env, inflight, target, run, lookup>>

IsFresh(e) == e.act = "fresh"

\* The calls made so far, per backend and key, read off the event.
HistoryFresh ==
    /\ called' = IF (IsCall(last') \/ IsNested(last')) /\ last' # last
                    /\ <<last'.cache, last'.key>> \notin DOMAIN called
                 THEN called @@ (<<last'.cache, last'.key>> :> last'.ret)
                 ELSE IF IsFresh(last') /\ last' # last
                 THEN [pair \in {x \in DOMAIN called : x[1] # last'.id} |-> called[pair]]
                 ELSE called
    /\ UNCHANGED <<firstResolved, lastResolved, lastUpd>>

NextFresh ==
    \/ \E options \in FreshOptions, id \in OwnIds : FreshWrap(options, id) /\ HistoryFresh
    \/ \E pr \in proxies : Call(pr, "add", <<Num(1)>>) /\ HistoryFresh
    \/ \E pr \in proxies, m \in NestedMethods : NestedCall(pr, m, <<Num(1)>>) /\ HistoryFresh

SpecFresh == InitFresh /\ [][NextFresh]_vars

-----------------------------------------------------------------------------
(* The two reference backends on their own.  The file system is the cache   *)
(* directory (root: whether entries can be created in it) and the namespace *)
(* directories under it.  A directory has permission bits (rwx, r-x: read   *)
(* only, r--: read only and not searchable, as chmod 0o444 leaves it), the  *)
(* entry files in it, and possibly a protected subdirectory that is not     *)
(* empty.  The process is not the superuser.                                *)

JsFalse == [t |-> "boolean", n |-> 0, s |-> "", kids |-> <<>>]

Bool(b) == IF b THEN Plain(JsTrue) ELSE Plain(JsFalse)

Dir(exists, perm, files, subdir) == [exists |-> exists, perm |-> perm, files |-> files, subdir |-> subdir]

\* fs.mkdirSync(namespacedDir, { recursive: true }) where there was none
NewDir == Dir(TRUE, "rwx", EmptyCache, FALSE)

NoDir == Dir(FALSE, "rwx", EmptyCache, FALSE)

CanSearch(d) == d.exists /\ d.perm \in {"rwx", "r-x"}

CanWrite(d) == d.exists /\ d.perm = "rwx"

\* fs.existsSync(filePath): false also when the file cannot be looked up
existsSync(d, name) == CanSearch(d) /\ name \in DOMAIN d.files

\* fs.unlinkSync(filePath) throws EACCES in a directory that is not writable
unlinkSync_Throws(d) == ~CanWrite(d)

\* fs.writeFileSync(filePath, data): creating a file needs a writable
\* directory, overwriting one a searchable directory
writeFileSync_Throws(d, name) == ~CanSearch(d) \/ (name \notin DOMAIN d.files /\ ~CanWrite(d))

\* The error of a failed file operation.
FsError == [t |-> "error", n |-> 0, s |-> "EACCES", kids |-> <<>>]

NamespaceOf_Ignored(option) == "default"

\* constructor, line 33: options?.namespace || 'default'
NamespaceOf(option) == IF option = "absent" THEN "default" ELSE option

DirHas_ValuePresent(d, key) ==
    existsSync(d, getFilePath(key)) /\ d.files[getFilePath(key)] # JsUndefined

\* has, in the namespace directory d
DirHas(d, key) == existsSync(d, getFilePath(key))

\* get, in the namespace directory d
DirGet(d, key) == IF ~existsSync(d, getFilePath(key)) THEN JsUndefined ELSE FileSystemCache_get(d.files, key)

DirSet_Throws(d, key, value) ==
    FileSystemCache_set_Throws(key, value) \/ writeFileSync_Throws(d, getFilePath(key))

\* set, in the namespace directory d
DirSet(d, key, value) == [d EXCEPT !.files = FileSystemCache_set(@, key, value)]

Removed(d, key) == [d EXCEPT !.files = [x \in DOMAIN d.files \ {getFilePath(key)} |-> d.files[x]]]

FileSystemCache_delete_Caught(d, key) ==
    IF existsSync(d, getFilePath(key)) /\ ~unlinkSync_Throws(d) THEN [dir |-> Removed(d, key), ret |-> Bool(TRUE)]
    ELSE [dir |-> d, ret |-> Bool(FALSE)]

FileSystemCache_delete_AlwaysTrue(d, key) ==
    IF existsSync(d, getFilePath(key))
    THEN IF unlinkSync_Throws(d) THEN [dir |-> d, ret |-> Thrown(FsError)]
         ELSE [dir |-> Removed(d, key), ret |-> Bool(TRUE)]
    ELSE [dir |-> d, ret |-> Bool(TRUE)]

\* delete, lines 113-122: nothing catches what unlinkSync throws
FileSystemCache_delete(d, key) ==
    IF existsSync(d, getFilePath(key))
    THEN IF unlinkSync_Throws(d) THEN [dir |-> d, ret |-> Thrown(FsError)]
         ELSE [dir |-> Removed(d, key), ret |-> Bool(TRUE)]
    ELSE [dir |-> d, ret |-> Bool(FALSE)]

\* clear, lines 133-152: the body of the try, for a directory that exists.
\* statSync throws in a directory that is not searchable and unlinkSync in one
\* that is not writable; rmdirSync fails, and is caught, for a directory that
\* is not empty or whose parent is not writable.
ClearExisting(root, d) ==
    IF (DOMAIN d.files # {} \/ d.subdir) /\ ~CanSearch(d) THEN [dir |-> d, threw |-> TRUE]
    ELSE IF DOMAIN d.files # {} /\ unlinkSync_Throws(d) THEN [dir |-> d, threw |-> TRUE]
    ELSE IF d.subdir \/ root # "rwx" THEN [dir |-> [d EXCEPT !.files = EmptyCache], threw |-> FALSE]
    ELSE [dir |-> NewDir, threw |-> FALSE]

\* lines 129-155: the try as a whole; mkdirSync throws where the directory is
\* missing and cannot be created.
ClearTry(root, d) ==
    IF d.exists THEN ClearExisting(root, d)
    ELSE IF root = "rwx" THEN [dir |-> NewDir, threw |-> FALSE]
    ELSE [dir |-> d, threw |-> TRUE]

FileSystemCache_clear_Uncaught(root, d) ==
    LET body == ClearTry(root, d)
    IN  [dir |-> body.dir, ret |-> IF body.threw THEN Thrown(FsError) ELSE Plain(JsUndefined)]

\* clear, lines 128-166: the catch makes the directory again where it can, and
\* swallows the error where it cannot.
FileSystemCache_clear(root, d) ==
    LET body == ClearTry(root, d)
    IN  IF ~body.threw THEN [dir |-> body.dir, ret |-> Plain(JsUndefined)]
        ELSE IF ~body.dir.exists /\ root = "rwx" THEN [dir |-> NewDir, ret |-> Plain(JsUndefined)]
        ELSE [dir |-> body.dir, ret |-> Plain(JsUndefined)]

\* The backends: the in-memory one, and file-backed ones named by the
\* namespace option they were constructed with.
IsMem(b) == b = "mem"

BackendHas(c, b, key) ==
    IF IsMem(b) THEN InMemoryCache_has(c.mem, key) ELSE DirHas(c.disk.dirs[NamespaceOf(b)], key)

BackendGet(c, b, key) ==
    IF IsMem(b) THEN InMemoryCache_get(c.mem, key) ELSE DirGet(c.disk.dirs[NamespaceOf(b)], key)

Op(b, op, key, value, ret) == [act |-> "backend", backend |-> b, op |-> op, key |-> key, value |-> value, ret |-> ret]

\* cache.set(key, value)
Set(b, key, value) ==
    /\ IF IsMem(b)
       THEN /\ caches' = [caches EXCEPT !.mem = InMemoryCache_set(@, key, value)]
            /\ last' = Op(b, "set", key, value, Plain(JsUndefined))
       ELSE IF DirSet_Throws(caches.disk.dirs[NamespaceOf(b)], key, value)
       THEN /\ caches' = caches
            /\ last' = Op(b, "set", key, value, Thrown(FsError))
       ELSE /\ caches' = [caches EXCEPT !.disk.dirs[NamespaceOf(b)] = DirSet(@, key, value)]
            /\ last' = Op(b, "set", key, value, Plain(JsUndefined))
    /\ UNCHANGED <<env, proxies, inflight, target, run, lookup>>

\* cache.get(key)
Get(b, key) ==
    /\ last' = Op(b, "get", key, JsUndefined, Plain(BackendGet(caches, b, key)))
    /\ UNCHANGED <<env, proxies, caches, inflight, target, run, lookup>>

\* cache.has(key)
Has(b, key) ==
    /\ last' = Op(b, "has", key, JsUndefined, Bool(BackendHas(caches, b, key)))
    /\ UNCHANGED <<env, proxies, caches, inflight, target, run, lookup>>

\* cache.delete(key)
Delete(b, key) ==
    /\ IF IsMem(b)
       THEN /\ caches' = [caches EXCEPT !.mem = InMemoryCache_delete(@, key).cache]
            /\ last' = Op(b, "delete", key, JsUndefined, Bool(InMemoryCache_delete(caches.mem, key).ret))
       ELSE LET done == FileSystemCache_delete(caches.disk.dirs[NamespaceOf(b)], key)
            IN  /\ caches' = [caches EXCEPT !.disk.dirs[NamespaceOf(b)] = done.dir]
                /\ last' = Op(b, "delete", key, JsUndefined, done.ret)
    /\ UNCHANGED <<env, proxies, inflight, target, run, lookup>>

\* cache.clear()
Clear(b) ==
    /\ IF IsMem(b)
       THEN /\ caches' = [caches EXCEPT !.mem = InMemoryCache_clear(@)]
            /\ last' = Op(b, "clear", "", JsUndefined, Plain(JsUndefined))
       ELSE LET done == FileSystemCache_clear(caches.disk.root, caches.disk.dirs[NamespaceOf(b)])
            IN  /\ caches' = [caches EXCEPT !.disk.dirs[NamespaceOf(b)] = done.dir]
                /\ last' = Op(b, "clear", "", JsUndefined, done.ret)
    /\ UNCHANGED <<env, proxies, inflight, target, run, lookup>>

IsOp(e, op) == e.act = "backend" /\ e.op = op

BackendKeys == {"key1", "key2"}

\* One in-memory backend and one file-backed backend, in the default
\* namespace of a cache directory in working order.
Backends == {"mem", "absent"}

BackendValues == {JsUndefined, JsNull, Num(1), Arr(<<JsUndefined>>)}

InitBackend ==
    /\ env = Unset
    /\ proxies = {}
    /\ caches = [mem |-> EmptyCache, disk |-> [root |-> "rwx", dirs |-> [default |-> NewDir]]]
    /\ inflight = EmptyBag
    /\ last = [act |-> "init"]
    /\ target = Num(42)
    /\ run = Idle
    /\ lookup = NoLookup
    /\ called = <<>>
    /\ firstResolved = EmptyCache
    /\ lastResolved = EmptyCache
    /\ lastUpd = EmptyCache

NextBackend ==
    \/ \E b \in Backends, key \in BackendKeys, value \in BackendValues : Set(b, key, value) /\ NoHistory
    \/ \E b \in Backends, key \in BackendKeys : Get(b, key) /\ NoHistory
    \/ \E b \in Backends, key \in BackendKeys : Has(b, key) /\ NoHistory
    \/ \E b \in Backends, key \in BackendKeys : Delete(b, key) /\ NoHistory
    \/ \E b \in Backends : Clear(b) /\ NoHistory

SpecBackend == InitBackend /\ [][NextBackend]_vars

-----------------------------------------------------------------------------
(* The file-backed backend over a cache directory that other code changes   *)
(* underneath it, as the backend's tests do: permissions are changed, an    *)
(* entry file is overwritten with text that is not JSON, a protected        *)
(* subdirectory is put into the namespace directory, the namespace          *)
(* directory is removed.                                                    *)

Fault(what) == [act |-> "fault", what |-> what]

\* fs.chmodSync(namespacedDir, mode)
Chmod(perm) ==
    /\ caches.disk.dirs.default.exists
    /\ caches.disk.dirs.default.perm # perm
    /\ caches' = [caches EXCEPT !.disk.dirs.default.perm = perm]
    /\ last' = Fault("chmod")
    /\ UNCHANGED <<env, proxies, inflight, target, run, lookup>>

\* fs.chmodSync(parentDir, mode)
ChmodRoot(perm) ==
    /\ caches.disk.root # perm
    /\ caches' = [caches EXCEPT !.disk.root = perm]
    /\ last' = Fault("chmodRoot")
    /\ UNCHANGED <<env, proxies, inflight, target, run, lookup>>

\* fs.writeFileSync(filePath, 'not valid json', 'utf8')
CorruptFile(key) ==
    /\ existsSync(caches.disk.dirs.default, getFilePath(key))
    /\ caches.disk.dirs.default.files[getFilePath(key)] # Corrupt
    /\ caches' = [caches EXCEPT !.disk.dirs.default.files[getFilePath(key)] = Corrupt]
    /\ last' = Fault("corrupt")
    /\ UNCHANGED <<env, proxies, inflight, target, run, lookup>>

\* fs.mkdirSync(subDir), a file written into it, fs.chmodSync(subDir, 0o555)
MakeSubdir ==
    /\ CanWrite(caches.disk.dirs.default)
    /\ ~caches.disk.dirs.default.subdir
    /\ caches' = [caches EXCEPT !.disk.dirs.default.subdir = TRUE]
    /\ last' = Fault("subdir")
    /\ UNCHANGED <<env, proxies, inflight, target, run, lookup>>

\* The files of the namespace directory are unlinked and fs.rmdirSync removes it.
RemoveDir ==
    /\ CanWrite(caches.disk.dirs.default)
    /\ ~caches.disk.dirs.default.subdir
    /\ caches.disk.root = "rwx"
    /\ caches' = [caches EXCEPT !.disk.dirs.default = NoDir]
    /\ last' = Fault("rmdir")
    /\ UNCHANGED <<env, proxies, inflight, target, run, lookup>>

IsFault(e) == e.act = "fault"

DirPerms == {"rwx", "r-x", "r--"}

RootPerms == {"rwx", "r-x"}

FaultValues == {Num(1), JsNull}

NextFaults ==
    \/ \E key \in BackendKeys, value \in FaultValues : Set("absent", key, value) /\ NoHistory
    \/ \E key \in BackendKeys : Get("absent", key) /\ NoHistory
    \/ \E key \in BackendKeys : Has("absent", key) /\ NoHistory
    \/ \E key \in BackendKeys : Delete("absent", key) /\ NoHistory
    \/ Clear("absent") /\ NoHistory
    \/ \E perm \in DirPerms : Chmod(perm) /\ NoHistory
    \/ \E perm \in RootPerms : ChmodRoot(perm) /\ NoHistory
    \/ \E key \in BackendKeys : CorruptFile(key) /\ NoHistory
    \/ MakeSubdir /\ NoHistory
    \/ RemoveDir /\ NoHistory

SpecFaults == InitBackend /\ [][NextFaults]_vars

-----------------------------------------------------------------------------
(* File-backed backends over one cache directory: one constructed without a *)
(* namespace, one with the namespace 'default' and one with the namespace   *)
(* 'ns1'.                                                                   *)

NamespaceOptions == {"absent", "default", "ns1"}

InitNamespaces ==
    /\ env = Unset
    /\ proxies = {}
    /\ caches = [mem |-> EmptyCache, disk |-> [root |-> "rwx", dirs |-> [default |-> NewDir, ns1 |-> NewDir]]]
    /\ inflight = EmptyBag
    /\ last = [act |-> "init"]
    /\ target = Num(42)
    /\ run = Idle
    /\ lookup = NoLookup
    /\ called = <<>>
    /\ firstResolved = EmptyCache
    /\ lastResolved = EmptyCache
    /\ lastUpd = EmptyCache

NextNamespaces ==
    \/ \E b \in NamespaceOptions, key \in BackendKeys, value \in FaultValues : Set(b, key, value) /\ NoHistory
    \/ \E b \in NamespaceOptions, key \in BackendKeys : Get(b, key) /\ NoHistory
    \/ \E b \in NamespaceOptions, key \in BackendKeys : Has(b, key) /\ NoHistory
    \/ \E b \in NamespaceOptions, key \in BackendKeys : Delete(b, key) /\ NoHistory
    \/ \E b \in NamespaceOptions : Clear(b) /\ NoHistory

SpecNamespaces == InitNamespaces /\ [][NextNamespaces]_vars

-----------------------------------------------------------------------------
(* A synchronous method that may throw: each invocation returns a value or  *)
(* throws an error.                                                         *)

\* method.apply(obj, args) of a method that may throw
ApplyOrThrow(m) == Apply(m) \cup {Ret("throws", JsError)}

ThrowingArgLists == {<<Num(1)>>, <<JsNull>>}

CallMayThrow(pr, a) ==
    /\ pr \in proxies
    /\ \E raw \in IF Invokes(pr.mode, caches[pr.cache], CacheKeys["add", a]) THEN ApplyOrThrow("add") ELSE {NotInvoked} :
        LET cacheKey == CacheKeys["add", a]
            h == Handler(pr.mode, caches[pr.cache], cacheKey, raw)
        IN  /\ caches' = [caches EXCEPT ![pr.cache] = h.cache]
            /\ last' = [act |-> "call", mode |-> pr.mode, cache |-> pr.cache, m |-> "add", a |-> a,
                        key |-> cacheKey, invoked |-> h.invoked, ops |-> h.ops,
                        src |-> h.src, ret |-> h.ret]
    /\ UNCHANGED <<env, proxies, inflight, target, run, lookup>>

\* Calls of the method through the four wraps.
NextThrows == \E pr \in proxies, a \in ThrowingArgLists : CallMayThrow(pr, a) /\ NoHistory

SpecThrows == Init /\ [][NextThrows]_vars

-----------------------------------------------------------------------------
(* The README's calculator: fibonacci is an arrow function that calls       *)
(*   calculator.fibonacci(n - 1) + calculator.fibonacci(n - 2)              *)
(* on the original object.  A wrapped call that reaches method.apply runs   *)
(* the body, frame by frame; the handler resumes when the outermost frame   *)
(* returns.                                                                 *)

\* line 85, for the calls of fibonacci (evaluated once).
FibKeys == [n \in FibArgs |-> generateCacheKey("fibonacci", <<Num(n)>>, NoTransformer)]

\* cachedCalculator.fibonacci(n): the handler up to method.apply, or up to its
\* return where it does not invoke the method.
FibCall(pr, n) ==
    /\ pr \in proxies
    /\ run.stack = <<>>
    /\ IF Invokes(pr.mode, caches[pr.cache], FibKeys[n])
       THEN /\ run' = [Idle EXCEPT !.stack = <<Frame(n)>>, !.mode = pr.mode, !.cache = pr.cache, !.n = n]
            /\ last' = [act |-> "fibstart", mode |-> pr.mode, cache |-> pr.cache, n |-> n]
       ELSE LET h == Handler(pr.mode, caches[pr.cache], FibKeys[n], NotInvoked)
            IN  /\ run' = [Idle EXCEPT !.mode = pr.mode, !.cache = pr.cache, !.n = n]
                /\ last' = [act |-> "fib", mode |-> pr.mode, cache |-> pr.cache, n |-> n,
                            key |-> FibKeys[n], invoked |-> h.invoked, ops |-> h.ops,
                            src |-> h.src, ret |-> h.ret]
    /\ UNCHANGED <<env, proxies, caches, inflight, target, lookup>>

\* The stack without its top frame.
Popped == SubSeq(run.stack, 1, Len(run.stack) - 1)

\* One step of the body of fibonacci in the top frame: enter it, call
\* calculator.fibonacci on the original object, or return.  When the
\* outermost frame returns the handler goes on from line 115 with the result.
FibStep ==
    /\ run.stack # <<>>
    /\ LET top == run.stack[Len(run.stack)]
           returns == (top.phase = 0 /\ top.n <= 1) \/ top.phase = 2
           value == IF top.phase = 0 THEN top.n ELSE top.acc + run.ret
       IN  IF returns /\ Len(run.stack) = 1
           THEN LET counted == IF top.phase = 0 THEN [run.counts EXCEPT ![top.n] = @ + 1] ELSE run.counts
                    h == Handler(run.mode, caches[run.cache], FibKeys[run.n], Plain(Num(value)))
                IN  /\ run' = [run EXCEPT !.stack = <<>>, !.ret = value, !.counts = counted]
                    /\ caches' = [caches EXCEPT ![run.cache] = h.cache]
                    /\ last' = [act |-> "fib", mode |-> run.mode, cache |-> run.cache, n |-> run.n,
                                key |-> FibKeys[run.n], invoked |-> h.invoked, ops |-> h.ops,
                                src |-> h.src, ret |-> h.ret]
           ELSE /\ run' =
                    IF top.phase = 0 /\ top.n <= 1
                    THEN [run EXCEPT !.stack = Popped, !.ret = value, !.counts[top.n] = @ + 1]
                    ELSE IF top.phase = 0
                    THEN [run EXCEPT !.stack = Popped \o <<[top EXCEPT !.phase = 1], Frame(top.n - 1)>>,
                                     !.counts[top.n] = @ + 1]
                    ELSE IF top.phase = 1
                    THEN [run EXCEPT !.stack = Popped \o <<[top EXCEPT !.phase = 2, !.acc = run.ret], Frame(top.n - 2)>>]
                    ELSE [run EXCEPT !.stack = Popped, !.ret = value]
                /\ UNCHANGED <<caches, last>>
    /\ UNCHANGED <<env, proxies, inflight, target, lookup>>

\* Wrapped calls of fibonacci through the four wraps, one after the other.
NextFib ==
    \/ \E pr \in proxies, n \in FibArgs : FibCall(pr, n) /\ NoHistory
    \/ FibStep /\ NoHistory

SpecFib == Init /\ [][NextFib]_vars

-----------------------------------------------------------------------------
(* Identical asynchronous calls in flight together.  `called` lists the      *)
(* calls in flight in the order they were issued; a call is overtaken when   *)
(* the continuation of an identical call issued after it has run.  The       *)
(* promises settle in any order.                                             *)

RaceArgLists == {<<Num(1)>>, <<JsNull>>}

Issued(cacheKey, id) == [key |-> cacheKey, id |-> id, overtaken |-> FALSE]

\* The least number that names no call in flight.
FreeId == CHOOSE i \in 1 .. MaxInflight + 1 :
    /\ \A j \in DOMAIN called : called[j].id # i
    /\ \A k \in 1 .. (i - 1) : \E j \in DOMAIN called : called[j].id = k

\* proxy.fetch(...a) through the NORMAL or the UPDATE_ONLY wrap.
RaceCall(pr, a) ==
    /\ pr.mode \in {"ON", "UPDATE_ONLY"}
    /\ Call(pr, "fetch", a)
    /\ called' = IF last'.ret.k = "then-promise" THEN Append(called, Issued(last'.key, FreeId)) ELSE called
    /\ UNCHANGED <<firstResolved, lastResolved, lastUpd>>

\* The promise of the i-th call in flight settles and its continuation runs
\* (lines 121-128).
RaceSettle(i) ==
    /\ i \in DOMAIN called
    /\ BagIn(Pending("given", called[i].key), inflight)
    /\ \E settled \in Settlements :
        /\ caches' = [caches EXCEPT !.given = Continuation(@, called[i].key, settled)]
        /\ last' = [act |-> "settle", mode |-> "", cache |-> "given", m |-> "", a |-> <<>>,
                    key |-> called[i].key, invoked |-> 0,
                    ops |-> IF ContinuationRuns(settled) THEN <<"set">> ELSE <<>>,
                    src |-> settled, ret |-> ThenSettles(settled),
                    id |-> called[i].id, overtaken |-> called[i].overtaken]
        /\ called' = [j \in 1 .. (Len(called) - 1) |->
                        IF j >= i THEN called[j + 1]
                        ELSE IF ContinuationRuns(settled) /\ called[j].key = called[i].key
                        THEN [called[j] EXCEPT !.overtaken = TRUE]
                        ELSE called[j]]
        /\ firstResolved' = IF ContinuationRuns(settled) /\ called[i].key \notin DOMAIN firstResolved
                            THEN InMemoryCache_set(firstResolved, called[i].key, settled.v)
                            ELSE firstResolved
        /\ lastResolved' = IF ContinuationRuns(settled)
                           THEN InMemoryCache_set(lastResolved, called[i].key, settled.v)
                           ELSE lastResolved
    /\ inflight' = inflight (-) SetToBag({Pending("given", called[i].key)})
    /\ UNCHANGED <<env, proxies, target, run, lookup, lastUpd>>

NextRace ==
    \/ \E pr \in proxies, a \in RaceArgLists : RaceCall(pr, a)
    \/ \E i \in DOMAIN called : RaceSettle(i)

SpecRace == Init /\ [][NextRace]_vars

-----------------------------------------------------------------------------
(* A synchronous method whose result may be any value: a primitive, a plain *)
(* object, a self-referential object, or an object that has a property      *)
(* named __ff_promise_result of its own.                                    *)

AnyResults ==
    Results \cup
    {Obj(<<Prop("a", Num(1))>>), JsCircular,
     Obj(<<Prop("__ff_promise_result", JsTrue), Prop("value", Num(1))>>),
     Obj(<<Prop("__ff_promise_result", JsTrue)>>),
     Obj(<<Prop("__ff_promise_result", Num(1)), Prop("value", Num(1))>>)}

\* method.apply(obj, args) of that method
ApplyAny == {Plain(v) : v \in AnyResults}

\* proxy.add(...a), the method returning any of those values.
CallAnyResult(pr, a) ==
    /\ pr \in proxies
    /\ \E raw \in IF Invokes(pr.mode, caches[pr.cache], CacheKeys["add", a]) THEN ApplyAny ELSE {NotInvoked} :
        LET cacheKey == CacheKeys["add", a]
            h == Handler(pr.mode, caches[pr.cache], cacheKey, raw)
        IN  /\ caches' = [caches EXCEPT ![pr.cache] = h.cache]
            /\ last' = [act |-> "call", mode |-> pr.mode, cache |-> pr.cache, m |-> "add", a |-> a,
                        key |-> cacheKey, invoked |-> h.invoked, ops |-> h.ops,
                        src |-> h.src, ret |-> h.ret]
    /\ UNCHANGED <<env, proxies, inflight, target, run, lookup>>

\* Calls of the method through the four wraps over an InMemoryCache.
NextAnyResult == \E pr \in proxies, a \in {<<Num(1)>>, <<JsNull>>} : CallAnyResult(pr, a) /\ NoHistory

SpecAnyResult == Init /\ [][NextAnyResult]_vars

-----------------------------------------------------------------------------
(* Wrapped calls over a FileSystemCache whose entry files something else    *)
(* overwrites with text that is not JSON.                                   *)

\* fs.writeFileSync(filePath, 'not valid json', 'utf8') on the entry file of
\* a key of the wrapped calls
CorruptEntry(cacheKey) ==
    /\ FileSystemCache_has(caches.given, cacheKey)
    /\ caches.given[getFilePath(cacheKey)] # Corrupt
    /\ caches' = [caches EXCEPT !.given[getFilePath(cacheKey)] = Corrupt]
    /\ last' = Fault("corrupt")
    /\ UNCHANGED <<env, proxies, inflight, target, run, lookup>>

NextCorrupt ==
    \/ \E pr \in proxies, m \in Methods : FileCall(pr, m, <<Num(1)>>) /\ NoHistory
    \/ \E pending \in BagToSet(inflight) : FileSettle(pending) /\ NoHistory
    \/ \E m \in Methods : CorruptEntry(CacheKeys[m, <<Num(1)>>]) /\ NoHistory

SpecCorrupt == Init /\ [][NextCorrupt]_vars

-----------------------------------------------------------------------------
(* Wraps made with options that are neither a backend nor a valid options   *)
(* object, next to a wrap over the caller's backend, under an environment   *)
(* that names a mode or none.                                               *)

MalformedOptions ==
    {Options("other", "absent", "absent", "absent"),
     Options("object", "broken", "absent", "absent"),
     Options("object", "backend", "BOGUS", "absent"),
     Options("object", "broken", "OFF", "function"),
     Options("object", "backend", "UPDATE_ONLY", "notFunction")}

EnvMalformed == {Unset, EnvStr(<<"r", "e", "a", "d", "_", "o", "n", "l", "y">>)}

NextMalformed ==
    \/ \E value \in EnvMalformed : SetEnv(value) /\ NoHistory
    \/ \E options \in MalformedOptions, id \in OwnIds : FreshWrap(options, id) /\ NoHistory
    \/ FreshWrap(Options("object", "backend", "ON", "absent"), "own") /\ NoHistory
    \/ \E pr \in proxies : Call(pr, "add", <<Num(1)>>) /\ NoHistory

SpecMalformed == InitFresh /\ [][NextMalformed]_vars

-----------------------------------------------------------------------------
(* A backend whose operations throw for a while: caches.failing is the set  *)
(* of the operations of the caller's backend that throw at present.  An     *)
(* operation that throws leaves the backend's contents as they were.        *)

BackendError == [t |-> "error", n |-> 0, s |-> "backend failure", kids |-> <<>>]

\* The position of the first operation of ops that throws, 0 when none does.
FirstFailing(ops, failing) ==
    IF \E i \in DOMAIN ops : ops[i] \in failing
    THEN CHOOSE i \in DOMAIN ops : ops[i] \in failing /\ \A j \in 1 .. (i - 1) : ops[j] \notin failing
    ELSE 0

FaultyHandler_FailsOpen(mode, c, failing, cacheKey, raw) ==
    LET h == Handler(mode, c, cacheKey, raw)
        i == FirstFailing(h.ops, failing)
    IN  IF i = 0 THEN h
        ELSE IF h.ops[i] = "set" THEN Path(1, h.ops, raw, raw, c)
        ELSE Execute("UPDATE_ONLY", c, cacheKey, raw)

\* fast-forward.ts lines 82-136 over that backend: the handler performs the
\* operations of its path in order and catches nothing, so the first one that
\* throws ends it; the method has been invoked by then only when the
\* operation is the set of line 131.
FaultyHandler(mode, c, failing, cacheKey, raw) ==
    LET h == Handler(mode, c, cacheKey, raw)
        i == FirstFailing(h.ops, failing)
    IN  IF i = 0 THEN h
        ELSE IF h.ops[i] = "set" THEN Path(1, SubSeq(h.ops, 1, i), raw, Thrown(BackendError), c)
        ELSE Path(0, SubSeq(h.ops, 1, i), NotInvoked, Thrown(BackendError), c)

\* lines 121-128 over that backend: a set that throws stores nothing
FaultyContinuation(c, failing, cacheKey, settled) ==
    IF "set" \in failing THEN c ELSE Continuation(c, cacheKey, settled)

\* What result.then(...) settles as: an error the callback throws rejects it.
FaultyThenSettles(failing, settled) ==
    IF ContinuationRuns(settled) /\ "set" \in failing THEN Rejected(BackendError) ELSE ThenSettles(settled)

\* A call of method m with arguments a through the wrap pr.
FaultyCall(pr, m, a) ==
    /\ pr \in proxies
    /\ LET cacheKey == CacheKeys[m, a]
           invokes == FaultyHandler(pr.mode, caches[pr.cache], caches.failing, cacheKey, Plain(JsUndefined)).invoked = 1
       IN  \E raw \in IF invokes THEN Apply(m) ELSE {NotInvoked} :
               LET h == FaultyHandler(pr.mode, caches[pr.cache], caches.failing, cacheKey, raw)
               IN  /\ h.ret.k = "then-promise" => BagCardinality(inflight) < MaxInflight
                   /\ inflight' = IF h.ret.k = "then-promise"
                                  THEN inflight (+) SetToBag({Pending(pr.cache, cacheKey)})
                                  ELSE inflight
                   /\ caches' = [caches EXCEPT ![pr.cache] = h.cache]
                   /\ last' = [act |-> "call", mode |-> pr.mode, cache |-> pr.cache, m |-> m, a |-> a,
                               key |-> cacheKey, invoked |-> h.invoked, ops |-> h.ops,
                               src |-> h.src, ret |-> h.ret]
                   /\ called' = IF h.ret.k = "throws" THEN InMemoryCache_set(called, cacheKey, JsTrue) ELSE called
    /\ UNCHANGED <<env, proxies, target, run, lookup, firstResolved, lastResolved, lastUpd>>

FaultySettle(pending) ==
    /\ BagIn(pending, inflight)
    /\ \E settled \in Settlements :
        /\ caches' = [caches EXCEPT ![pending.cache] = FaultyContinuation(@, caches.failing, pending.key, settled)]
        /\ last' = [act |-> "settle", mode |-> "", cache |-> pending.cache, m |-> "", a |-> <<>>,
                    key |-> pending.key, invoked |-> 0,
                    ops |-> IF ContinuationRuns(settled) THEN <<"set">> ELSE <<>>,
                    src |-> settled, ret |-> FaultyThenSettles(caches.failing, settled)]
    /\ inflight' = inflight (-) SetToBag({pending})
    /\ UNCHANGED <<env, proxies, target, run, lookup, called, firstResolved, lastResolved, lastUpd>>

\* The backend starts or stops throwing from the operations in ops.
SetFailing(ops) ==
    /\ caches.failing # ops
    /\ caches' = [caches EXCEPT !.failing = ops]
    /\ last' = Fault("failing")
    /\ UNCHANGED <<env, proxies, inflight, target, run, lookup, called, firstResolved, lastResolved, lastUpd>>

\* The four wraps over the caller's backend, which works; `called` will hold
\* the keys of the calls that a backend error ended.
InitFaulty ==
    /\ env = Unset
    /\ proxies = {Wrap(Options("object", "backend", mode, "absent"), Unset) : mode \in Modes}
    /\ caches = [given |-> EmptyCache, own |-> EmptyCache, failing |-> {}]
    /\ inflight = EmptyBag
    /\ last = [act |-> "init"]
    /\ target = Num(42)
    /\ run = Idle
    /\ lookup = NoLookup
    /\ called = EmptyCache
    /\ firstResolved = EmptyCache
    /\ lastResolved = EmptyCache
    /\ lastUpd = EmptyCache

NextFaulty ==
    \/ \E pr \in proxies, m \in Methods : FaultyCall(pr, m, <<Num(1)>>)
    \/ \E pending \in BagToSet(inflight) : FaultySettle(pending)
    \/ \E ops \in SUBSET {"has", "get", "set"} : SetFailing(ops)

SpecFaulty == InitFaulty /\ [][NextFaulty]_vars

-----------------------------------------------------------------------------
(* Operations of one name in different places: two targets wrapped over the *)
(* caller's backend, each with a method `add`, and objects nested in the    *)
(* first target, at one and at two levels, each with a method `add` of its  *)
(* own.  A place is a target and the property names that lead from it to    *)
(* the object whose method is called.                                       *)

Place(targetName, props) == [target |-> targetName, props |-> props]

Places ==
    {Place("a", <<>>), Place("b", <<>>), Place("a", <<"nested">>), Place("a", <<"other">>),
     Place("a", <<"nested", "inner">>)}

SharedArgLists == {<<Num(1)>>, <<Obj(<<Prop("a", Num(1))>>)>>}

\* The text of the path to a method: the property names joined by dots.
RECURSIVE PathText(_)
PathText(props) == IF props = <<>> THEN "" ELSE Head(props) \o "." \o PathText(Tail(props))

HandlerKey_Qualified(at, prop, args) == generateCacheKey(PathText(at.props) \o prop, args, NoTransformer)

\* line 85: generateCacheKey(`${String(prop)}`, args), prop being the name the
\* get trap was entered with for the method, wherever the object is.
HandlerKey(at, prop, args) == generateCacheKey(prop, args, NoTransformer)

\* The wrap whose handler serves the object at the end of props: each
\* property read on the way goes through the get trap (line 74).
RECURSIVE WrapAt(_, _)
WrapAt(pr, props) ==
    IF props = <<>> THEN pr ELSE WrapAt(GetTrap(pr, NestedObject, env).v, Tail(props))

\* proxy.add(...a), or proxy.nested.add(...a) and the like, through the
\* NORMAL wrap of the target of the place.
SharedCall(pr, at, a) ==
    /\ pr \in proxies
    /\ pr.mode = "ON"
    /\ LET wrap == WrapAt(pr, at.props)
           cacheKey == HandlerKey(at, "add", a)
       IN  \E raw \in IF Invokes(wrap.mode, caches[wrap.cache], cacheKey) THEN Apply("add") ELSE {NotInvoked} :
               LET h == Handler(wrap.mode, caches[wrap.cache], cacheKey, raw)
               IN  /\ caches' = [caches EXCEPT ![wrap.cache] = h.cache]
                   /\ last' = [act |-> "call", mode |-> wrap.mode, cache |-> wrap.cache, m |-> "add", a |-> a,
                               key |-> cacheKey, invoked |-> h.invoked, ops |-> h.ops,
                               src |-> h.src, ret |-> h.ret, at |-> at]
                   /\ called' = IF a \in DOMAIN called THEN called
                                ELSE called @@ (a :> [ret |-> h.ret, at |-> at])
    /\ UNCHANGED <<env, proxies, inflight, target, run, lookup, firstResolved, lastResolved, lastUpd>>

NextShared == \E pr \in proxies, at \in Places, a \in SharedArgLists : SharedCall(pr, at, a)

SpecShared == Init /\ [][NextShared]_vars

-----------------------------------------------------------------------------
(* The lookup of lines 93-94 step by step, over a FileSystemCache that      *)
(* another process shares: cache.has(cacheKey) and cache.get(cacheKey) are   *)
(* two calls, each of which looks at the file system for itself, and the    *)
(* other process may remove entry files at any moment, also between the     *)
(* two.  The wrapper's own code runs to completion: while a call is between *)
(* its has and its get no other call and no continuation of this process    *)
(* runs.                                                                    *)

LookupResult_FallsThrough(mode, files, cacheKey, raw) ==
    IF FileSystemCache_has(files, cacheKey)
    THEN Path(0, <<"has", "get">>, NotInvoked, ReturnCached(FileSystemCache_get(files, cacheKey)), files)
    ELSE FileHandler("UPDATE_ONLY", files, cacheKey, raw)

\* lines 94-106, has having returned true at line 93: get reads the files as
\* they are now, and what it returns is returned as the cached result.
LookupResult(mode, files, cacheKey, raw) ==
    Path(0, <<"has", "get">>, NotInvoked, ReturnCached(FileSystemCache_get(files, cacheKey)), files)

\* line 93 in NORMAL or READ_ONLY mode: cache.has(cacheKey) returns true.
LookupBegin(pr, m, a) ==
    /\ pr \in proxies
    /\ lookup = NoLookup
    /\ ConsultsCache(pr.mode)
    /\ FileSystemCache_has(caches[pr.cache], CacheKeys[m, a])
    /\ lookup' = [wrap |-> pr, m |-> m, a |-> a, key |-> CacheKeys[m, a]]
    /\ last' = [act |-> "has", mode |-> pr.mode, cache |-> pr.cache, m |-> m, a |-> a,
                key |-> CacheKeys[m, a], ops |-> <<"has">>, ret |-> Plain(JsTrue)]
    /\ UNCHANGED <<env, proxies, caches, inflight, target, run>>

\* lines 94-106: the call goes on with cache.get(cacheKey) and returns.
LookupEnd ==
    /\ lookup # NoLookup
    /\ LET pr == lookup.wrap
           files == caches[pr.cache]
           invokes == LookupResult(pr.mode, files, lookup.key, Plain(JsUndefined)).invoked = 1
       IN  \E raw \in IF invokes THEN Apply(lookup.m) ELSE {NotInvoked} :
               LET h == LookupResult(pr.mode, files, lookup.key, raw)
               IN  /\ h.ret.k = "then-promise" => BagCardinality(inflight) < MaxInflight
                   /\ inflight' = IF h.ret.k = "then-promise"
                                  THEN inflight (+) SetToBag({Pending(pr.cache, lookup.key)})
                                  ELSE inflight
                   /\ caches' = [caches EXCEPT ![pr.cache] = h.cache]
                   /\ last' = [act |-> "filecall", mode |-> pr.mode, cache |-> pr.cache,
                               m |-> lookup.m, a |-> lookup.a, key |-> lookup.key,
                               invoked |-> h.invoked, ops |-> h.ops, src |-> h.src, ret |-> h.ret]
    /\ lookup' = NoLookup
    /\ UNCHANGED <<env, proxies, target, run>>

\* A call that does not look up, or whose has returns false: the handler runs
\* to its return.
LookupMiss(pr, m, a) ==
    /\ lookup = NoLookup
    /\ ~(ConsultsCache(pr.mode) /\ FileSystemCache_has(caches[pr.cache], CacheKeys[m, a]))
    /\ FileCall(pr, m, a)

\* The other process removes the entry file of a key: fs.unlinkSync(filePath),
\* or delete or clear on a FileSystemCache of its own over the directory.
RemoveEntry(cacheKey) ==
    /\ FileSystemCache_has(caches.given, cacheKey)
    /\ caches' = [caches EXCEPT !.given = [x \in DOMAIN @ \ {getFilePath(cacheKey)} |-> @[x]]]
    /\ last' = Fault("remove")
    /\ UNCHANGED <<env, proxies, inflight, target, run, lookup>>

NextLookup ==
    \/ \E pr \in proxies, m \in Methods : LookupBegin(pr, m, <<Num(1)>>) /\ NoHistory
    \/ LookupEnd /\ NoHistory
    \/ \E pr \in proxies, m \in Methods : LookupMiss(pr, m, <<Num(1)>>) /\ NoHistory
    \/ \E pending \in BagToSet(inflight) : lookup = NoLookup /\ FileSettle(pending) /\ NoHistory
    \/ \E m \in Methods : RemoveEntry(CacheKeys[m, <<Num(1)>>]) /\ NoHistory

SpecLookup == Init /\ [][NextLookup]_vars

-----------------------------------------------------------------------------
(* Claims. *)

\* The event e is a call through a wrap of the given mode.
CallIn(e, mode) == IsCall(e) /\ e.mode = mode

\* What a cache hit is to return for the entry stored under a key: the value a
\* synchronous call stored, or a promise for the value a promise resolved to.
Served(c, cacheKey) ==
    IF c[cacheKey] \in {TaggedEntry(v) : v \in Results}
    THEN TimerPromise(CHOOSE v \in Results : c[cacheKey] = TaggedEntry(v))
    ELSE Plain(c[cacheKey])

\* C1: in NORMAL mode over a backend nothing else mutates, a synchronous call
\* whose (method, arguments) were called before returns what the first such
\* call returned and does not invoke the method; a call with arguments not
\* passed before invokes it; and the method is invoked at most once per key.
C1_MemoisedPerArguments ==
    [][(CallIn(last', "ON") /\ ~IsAsync(last'.m)) =>
        /\ <<last'.m, last'.a>> \in DOMAIN called =>
            (last'.invoked = 0 /\ last'.ret = called[<<last'.m, last'.a>>])
        /\ <<last'.m, last'.a>> \notin DOMAIN called => last'.invoked = 1
        /\ last'.invoked = 1 => \A pair \in DOMAIN called : CacheKeys[pair[1], pair[2]] # last'.key]_vars

\* C2: in OFF mode every call invokes the method once, returns what it
\* returned, performs no backend operation and leaves the backends as they were.
C2_OffBypassesCache ==
    /\ [](CallIn(last, "OFF") => (last.invoked = 1 /\ last.ret = last.src /\ last.ops = <<>>))
    /\ [][CallIn(last', "OFF") => (caches' = caches /\ inflight' = inflight)]_vars

\* An OFF call for a key the backend holds an entry for.
C2_Witness == CallIn(last, "OFF") /\ last.key \in DOMAIN caches[last.cache]

\* C3: an UPDATE_ONLY synchronous call invokes the method, also when the key
\* has an entry, and leaves its result as the entry; a later NORMAL call for a
\* key returns the result of the last UPDATE_ONLY call for it, without invoking.
C3_UpdateOnlyRefreshes ==
    /\ [][(CallIn(last', "UPDATE_ONLY") /\ ~IsAsync(last'.m)) =>
            /\ last'.invoked = 1
            /\ last'.ret = last'.src
            /\ last'.key \in DOMAIN caches'[last'.cache]
            /\ caches'[last'.cache][last'.key] = last'.ret.v]_vars
    /\ [][(CallIn(last', "ON") /\ last'.key \in DOMAIN lastUpd) =>
            (last'.invoked = 0 /\ last'.ret = Plain(lastUpd[last'.key]))]_vars

\* A NORMAL call served from what an UPDATE_ONLY call stored.
C3_Witness == CallIn(last, "ON") /\ last.key \in DOMAIN lastUpd /\ last.ret = Plain(Num(1))

\* C4: a READ_ONLY call never invokes the method; it returns undefined when
\* the key has no entry and what the entry holds when it has one.
C4_ReadOnlyNeverInvokes ==
    [][CallIn(last', "READ_ONLY") =>
        /\ last'.invoked = 0
        /\ last'.key \notin DOMAIN caches[last'.cache] => last'.ret = Plain(JsUndefined)
        /\ last'.key \in DOMAIN caches[last'.cache] => last'.ret = Served(caches[last'.cache], last'.key)]_vars

\* A READ_ONLY call served from an entry.
C4_Witness == CallIn(last, "READ_ONLY") /\ last.ret = Plain(Num(1))

\* C5: a READ_ONLY call, hit or miss, of a synchronous or an asynchronous
\* method, writes nothing: the backends hold what they held before.
C5_ReadOnlyNeverWrites ==
    [][CallIn(last', "READ_ONLY") =>
        /\ caches' = caches
        /\ inflight' = inflight
        /\ \A i \in DOMAIN last'.ops : last'.ops[i] \in {"has", "get"}]_vars

\* A READ_ONLY miss of an asynchronous method.
C5_Witness == CallIn(last, "READ_ONLY") /\ IsAsync(last.m) /\ last.ops = <<"has", "has">>

\* C6: when the promise of an asynchronous method rejects, the caller's
\* promise rejects with the same error, the backend holds no entry for the
\* call's key afterwards, and so the next identical NORMAL call invokes again.
C6_RejectionLeavesNoEntry ==
    (IsSettle(last) /\ last.src.k = "rejected") =>
        /\ last.ret = last.src
        /\ last.key \notin DOMAIN caches[last.cache]
        /\ Invokes("ON", caches[last.cache], last.key)

C8_AsyncReturnsPromise ==
    (IsCall(last) /\ IsAsync(last.m)) =>
        /\ last.invoked = 1 => IsPromise(last.ret)
        /\ last.ops = <<"has", "get">> =>
            /\ last.ret.k = "timer-promise"
            /\ caches[last.cache][last.key] = TaggedEntry(last.ret.v)

\* A hit of the asynchronous method, served as a promise for null.
C8_Witness == IsCall(last) /\ IsAsync(last.m) /\ last.ret = TimerPromise(JsNull)

\* The event e is a call of fastForward.
IsWrap(e) == e.act = "wrap"

\* The environment value is the name of the mode, in any letter case.
EnvNames(value, mode) == value.set /\ ToUpperCase(value.chars) = ModeChars(mode)

\* The mode the environment value names, ON when it names none.
EnvOrDefault(value) ==
    IF \E mode \in Modes : EnvNames(value, mode)
    THEN CHOOSE mode \in Modes : EnvNames(value, mode)
    ELSE "ON"

\* The options are an object that carries one of the four modes.
GivesMode(options) == options.shape = "object" /\ options.mode \in Modes

\* The options are an object whose cache, where present, is a cache and whose
\* key, where present, is a function.
WellFormed(options) ==
    /\ options.shape = "object"
    /\ options.cache \in {"absent", "backend"}
    /\ options.key \in {"absent", "function"}

C10_PaddedNameResolves ==
    (IsWrap(last) /\ ~GivesMode(last.options) /\ last.envAt.set) =>
        \A mode \in Modes :
            ToUpperCase(Trim(last.envAt.chars)) = ModeChars(mode) => \A pr \in proxies : pr.mode = mode

\* The handler's outcome for the event e of a call, had it run under the given
\* mode over the backend contents c.
Outcome(e, mode, c) == Handler(mode, c, e.key, e.src)

\* C11: the mode is resolved when fastForward is called and stays with the
\* wrap: a change of FASTFORWARD_MODE leaves the wraps in use as they are, only
\* a call of fastForward makes a wrap with another mode, a call through a wrap
\* runs under the mode the wrap captured, and a call through the wrap of a
\* nested object obtained after the change runs under the parent's mode.
C11_ModeFixedAtWrap ==
    /\ [][env' # env => proxies' = proxies]_vars
    /\ [][proxies' # proxies =>
            (IsWrap(last') /\ proxies' = {Wrap(last'.options, env)})]_vars
    /\ [][(last' # last /\ IsCall(last')) =>
            /\ \E pr \in proxies : pr.mode = last'.mode /\ pr.cache = last'.cache
            /\ last'.ret = Outcome(last', last'.mode, caches[last'.cache]).ret
            /\ last'.invoked = Outcome(last', last'.mode, caches[last'.cache]).invoked
            /\ caches'[last'.cache] = Outcome(last', last'.mode, caches[last'.cache]).cache]_vars
    /\ [][(last' # last /\ IsNested(last')) =>
            /\ last'.parent \in proxies
            /\ last'.mode = last'.parent.mode
            /\ last'.ret = Outcome(last', last'.parent.mode, caches[last'.parent.cache]).ret
            /\ last'.invoked = Outcome(last', last'.parent.mode, caches[last'.parent.cache]).invoked]_vars

\* A wrap that took OFF from the environment, and a call through the wrap of
\* its nested object made after the environment was changed to read_only: the
\* call invokes the method.
C11_Witness ==
    /\ IsNested(last)
    /\ proxies = {last.parent}
    /\ last.parent.mode = "OFF"
    /\ parseCacheMode(last.envAt) = "READ_ONLY"
    /\ last.invoked = 1

\* Two values are deeply equal up to the order of the keys of their objects,
\* at every depth.
RECURSIVE SameUpToOrder(_, _)
SameUpToOrder(v, w) ==
    /\ v.t = w.t /\ v.n = w.n /\ v.s = w.s
    /\ Len(v.kids) = Len(w.kids)
    /\ IF v.t = "array"
       THEN \A i \in DOMAIN v.kids : SameUpToOrder(v.kids[i].v, w.kids[i].v)
       ELSE \A i \in DOMAIN v.kids : \E j \in DOMAIN w.kids :
                v.kids[i].k = w.kids[j].k /\ SameUpToOrder(v.kids[i].v, w.kids[j].v)

IsKeys(e) == e.act = "keys"

\* The event e is the second of the two calls.
IsSecondCall(e) == e.act = "keyed" /\ e.n = 2

\* C12: argument lists that are deeply equal up to the order of object keys
\* have the same key, whatever the method name, and the second of two calls
\* with such lists is a hit: it does not invoke the method and returns what
\* the first call returned.
C12_KeyIgnoresPropertyOrder ==
    /\ (IsKeys(last) /\ SameUpToOrder(Arr(last.a1), Arr(last.a2))) => last.k1 = last.k2
    /\ (IsSecondCall(last) /\ SameUpToOrder(Arr(last.a1), Arr(last.a2))) =>
            (last.invoked = 0 /\ last.ops = <<"has", "get">> /\ last.ret = last.first)

\* The second call is a hit for an argument whose nested object has its keys
\* in another order than in the first call.
C12_Witness ==
    /\ IsSecondCall(last)
    /\ last.a1 = <<Obj(<<Prop("a", Obj(<<Prop("b", Num(2)), Prop("c", JsNull)>>))>>)>>
    /\ last.a2 = <<Obj(<<Prop("a", Obj(<<Prop("c", JsNull), Prop("b", Num(2))>>))>>)>>
    /\ last.invoked = 0

\* C13: for one method name the argument lists [null], [undefined] and [""]
\* have pairwise different keys, and two different argument lists with the
\* same elements in another order have different keys.
C13_KeepsPrimitiveAndOrderDistinctions ==
    (IsKeys(last) /\ last.tr = NoTransformer /\ last.a1 # last.a2) =>
        /\ {last.a1, last.a2} \subseteq {<<JsNull>>, <<JsUndefined>>, <<Str("")>>} => last.k1 # last.k2
        /\ (Len(last.a1) = 2 /\ last.a2 = <<last.a1[2], last.a1[1]>>) => last.k1 # last.k2

\* The texts stringify gives the argument lists of the model.
ArgTexts == {stringify(Arr(a)) : a \in {x \in KeyArgLists \cup {<<>>} : ~StringifyThrows(Arr(x))}}

C15_NoKeyBypassesBackend ==
    /\ (IsCall(last) /\ last.key = NoKey) =>
            /\ last.ops = <<>>
            /\ last.invoked = 1
            /\ ~IsAsync(last.m) => last.ret = last.src
    /\ \A id \in DOMAIN caches : NoKey \notin DOMAIN caches[id]

\* C16: in NORMAL mode over the file-backed backend a call whose arguments
\* cannot be serialised raises no error: it invokes the method and returns
\* what the method returned.
C16_NoKeyNeverSurfaces ==
    (IsFileCall(last) /\ last.mode = "ON" /\ last.key = NoKey) =>
        /\ last.ret.k # "throws"
        /\ last.invoked = 1
        /\ ~IsAsync(last.m) => last.ret = last.src

\* Some earlier call of one of the methods has, under the key transformer, the
\* key components of the call of m with arguments a.
SharesTransformedKey(methods, keyTransformer, m, a) ==
    \E pair \in DOMAIN called :
        /\ pair[1] \in methods
        /\ generateCacheKey(pair[1], pair[2], keyTransformer) = generateCacheKey(m, a, keyTransformer)

\* C17: through a wrap whose options carry a key transformer that drops the
\* arguments, a call whose transformed method and arguments equal those of an
\* earlier call hits that call's entry and does not invoke the method.
C17_TransformedKeyShared ==
    [][(last' # last /\ IsCall(last') /\ SharesTransformedKey({"add"}, "dropArgs", last'.m, last'.a)) =>
        last'.invoked = 0]_vars

\* C18: through a wrap whose options carry a key transformer that returns
\* constant components, a call of the nested object's method after an earlier
\* call of it, with other arguments, does not invoke the method.
C18_TransformerReachesNested ==
    [][(last' # last /\ IsNested(last') /\ SharesTransformedKey(NestedMethods, "constant", last'.m, last'.a)) =>
        last'.invoked = 0]_vars

\* C19: the wrap of a nested object has the backend and the mode of its
\* parent, and so has the wrap of an object nested in it; in NORMAL mode a
\* call of a nested method with arguments it was called with before is served
\* from the backend without invoking the method.
C19_NestedMemoised ==
    /\ [](\A pr \in proxies :
            /\ NestedWrap(pr, env) = pr
            /\ NestedWrap(NestedWrap(pr, env), env) = NestedWrap(pr, env))
    /\ [][(last' # last /\ IsNested(last')) =>
            /\ last'.cache = last'.parent.cache
            /\ last'.mode = last'.parent.mode
            /\ (last'.parent.mode = "ON" /\ <<last'.m, last'.a>> \in DOMAIN called) =>
                    (last'.invoked = 0 /\ last'.ops = <<"has", "get">>)]_vars

\* A repeated call of the nested method through the NORMAL wrap, served its
\* entry.
C19_Witness ==
    /\ IsNested(last)
    /\ last.parent.mode = "ON"
    /\ <<last.m, last.a>> \in DOMAIN called
    /\ last.invoked = 0
    /\ last.ret = Plain(Num(1))

\* C20: reading through the proxy a property whose value is neither a method
\* nor a non-array object returns the value the target holds now, in every
\* mode, and performs no backend operation.
C20_PlainPropertiesPassThrough ==
    [][(last' # last /\ IsRead(last') /\ ~isObject(target)) =>
        /\ last'.ret = Plain(target)
        /\ last'.ops = <<>>
        /\ caches' = caches
        /\ inflight' = inflight]_vars

\* A read of the property after the target reassigned it, over a backend that
\* holds entries.
C20_Witness ==
    /\ IsRead(last)
    /\ target = Num(100)
    /\ last.ret = Plain(Num(100))
    /\ caches[last.cache] # EmptyCache

\* C21: a wrap made with a bare backend and a wrap made with {cache: backend}
\* capture the same mode under every environment value, and every call made
\* through both performs the same backend operations, invokes the method the
\* same number of times, returns the same and leaves the same entries.
C21_BareBackendIsCacheOption ==
    /\ \A value \in EnvValues : Wrap(BareCache, value) = Wrap(ShorthandOptions, value)
    /\ \A bare \in proxies, opt \in proxies : bare.mode = opt.mode
    /\ IsPair(last) => last.bare = last.options
    /\ caches.given = caches.twin

\* Both wraps, made under read_only, serve the entry a call stored through
\* wraps made with the variable unset.
C21_Witness ==
    /\ last.act = "pair"
    /\ parseCacheMode(env) = "READ_ONLY"
    /\ last.bare.mode = "READ_ONLY"
    /\ last.options.ops = <<"has", "get">>
    /\ last.bare.ret = Plain(Num(1))

RECURSIVE JsonFaithful(_)
JsonFaithful(v) ==
    \A i \in DOMAIN v.kids : v.kids[i].v.t # "undefined" /\ JsonFaithful(v.kids[i].v)

\* The step is the operation every later has and get of (b, key) may depend on:
\* a set or delete of the key, or a clear, on that backend.
Touches(e, b, key) ==
    /\ e.act = "backend"
    /\ e.backend = b
    /\ \/ e.op = "clear"
       \/ e.op \in {"set", "delete"} /\ e.key = key

\* C23 as stated: on both backends a set leaves has true and get returning
\* the value set, whatever the value; operations other than a set or delete of
\* the key and a clear leave has and get of the key as they were; and has is
\* false for a key never set.
C23_GetReturnsValueSet ==
    /\ [](last.act = "init" => \A b \in Backends, key \in BackendKeys : ~BackendHas(caches, b, key))
    /\ [][(IsOp(last', "set") /\ last'.ret.k # "throws") =>
            /\ BackendHas(caches', last'.backend, last'.key)
            /\ BackendGet(caches', last'.backend, last'.key) = last'.value]_vars
    /\ [][\A b \in Backends, key \in BackendKeys :
            ~Touches(last', b, key) =>
                /\ BackendHas(caches', b, key) = BackendHas(caches, b, key)
                /\ BackendGet(caches', b, key) = BackendGet(caches, b, key)]_vars
    /\ [][\A b \in Backends, key \in BackendKeys :
            (BackendHas(caches', b, key) /\ ~BackendHas(caches, b, key)) =>
                (IsOp(last', "set") /\ last'.backend = b /\ last'.key = key)]_vars

\* C23, amended: as stated for the in-memory backend; on the file-backed
\* backend get returns the value set when JSON reproduces the value (undefined
\* and null among them), and has is true after every set.
C23_GetReturnsValueAsStored ==
    /\ [](last.act = "init" => \A b \in Backends, key \in BackendKeys : ~BackendHas(caches, b, key))
    /\ [][(IsOp(last', "set") /\ last'.ret.k # "throws") =>
            /\ BackendHas(caches', last'.backend, last'.key)
            /\ (IsMem(last'.backend) \/ JsonFaithful(last'.value)) =>
                    BackendGet(caches', last'.backend, last'.key) = last'.value]_vars
    /\ [][\A b \in Backends, key \in BackendKeys :
            ~Touches(last', b, key) =>
                /\ BackendHas(caches', b, key) = BackendHas(caches, b, key)
                /\ BackendGet(caches', b, key) = BackendGet(caches, b, key)]_vars
    /\ [][\A b \in Backends, key \in BackendKeys :
            (BackendHas(caches', b, key) /\ ~BackendHas(caches, b, key)) =>
                (IsOp(last', "set") /\ last'.backend = b /\ last'.key = key)]_vars

\* A get of the file-backed backend returns undefined for a key that is
\* present, because undefined was set, while the other key holds null.
C23_Witness ==
    /\ IsOp(last, "get") /\ ~IsMem(last.backend)
    /\ last.ret = Plain(JsUndefined)
    /\ BackendHas(caches, last.backend, last.key)
    /\ \E key \in BackendKeys \ {last.key} : BackendGet(caches, last.backend, key) = JsNull

\* C24: on both backends delete(key) returns true exactly when the backend
\* held an entry for the key, which it removes, and false when it held none;
\* either way has(key) is false afterwards and has and get of every other
\* key of every backend are as they were.
C24_DeleteReportsRemoval ==
    [][IsOp(last', "delete") =>
        /\ last'.ret = Bool(BackendHas(caches, last'.backend, last'.key))
        /\ ~BackendHas(caches', last'.backend, last'.key)
        /\ \A b \in Backends, key \in BackendKeys :
            (b # last'.backend \/ key # last'.key) =>
                /\ BackendHas(caches', b, key) = BackendHas(caches, b, key)
                /\ BackendGet(caches', b, key) = BackendGet(caches, b, key)]_vars

\* A delete on the file-backed backend that removed an entry and returned
\* true, the other key keeping its entry.
C24_Witness ==
    /\ IsOp(last, "delete") /\ ~IsMem(last.backend)
    /\ last.ret = Bool(TRUE)
    /\ ~BackendHas(caches, last.backend, last.key)
    /\ \E key \in BackendKeys \ {last.key} : BackendGet(caches, last.backend, key) = Num(1)

\* The namespace directory holds the entry file of the key.
FileOf(c, key) == getFilePath(key) \in DOMAIN c.disk.dirs.default.files

\* C25: a delete of a key whose entry file exists and cannot be removed,
\* because the namespace directory is read-only, returns false and does not
\* raise.
C25_DeleteSwallowsFailure ==
    [][(IsOp(last', "delete") /\ FileOf(caches, last'.key) /\ ~CanWrite(caches.disk.dirs.default)) =>
        last'.ret = Bool(FALSE)]_vars

C28_CorruptedEntryIsMiss ==
    (IsOp(last, "get") /\ FileOf(caches, last.key)
        /\ caches.disk.dirs.default.files[getFilePath(last.key)] = Corrupt) =>
            last.ret = Plain(JsUndefined)

\* A get of a corrupted entry for which has is true.
C28_Witness ==
    /\ IsOp(last, "get")
    /\ BackendHas(caches, last.backend, last.key)
    /\ caches.disk.dirs.default.files[getFilePath(last.key)] = Corrupt
    /\ last.ret = Plain(JsUndefined)

\* The two backends were constructed with different namespaces: one with
\* 'ns1', the other with 'default' or with none, which is 'default'.
DifferentNamespaces(b1, b2) == (b1 = "ns1") # (b2 = "ns1")

\* C27: an operation on a file-backed backend leaves has and get of every key
\* on every backend of another namespace of the same cache directory as they
\* were.
C27_NamespacesIsolated ==
    [][last'.act = "backend" =>
        \A b \in NamespaceOptions, key \in BackendKeys :
            DifferentNamespaces(last'.backend, b) =>
                /\ BackendHas(caches', b, key) = BackendHas(caches, b, key)
                /\ BackendGet(caches', b, key) = BackendGet(caches, b, key)]_vars

\* A set in the namespace 'ns1' of a key that holds another value in the
\* default namespace, which holds it still.
C27_Witness ==
    /\ IsOp(last, "set") /\ last.backend = "ns1" /\ last.key = "key1"
    /\ BackendGet(caches, "ns1", "key1") = JsNull
    /\ BackendHas(caches, "absent", "key1")
    /\ BackendGet(caches, "default", "key1") = Num(1)

\* C29: in every mode in which the method is invoked, a call whose method
\* throws gives the caller the error thrown, performs no set and leaves the
\* backends as they were, and the same call made next invokes the method again.
C29_ThrownErrorPropagates ==
    [][(IsCall(last') /\ last'.src.k = "throws") =>
        /\ last'.ret = last'.src
        /\ \A i \in DOMAIN last'.ops : last'.ops[i] # "set"
        /\ caches' = caches
        /\ Invokes(last'.mode, caches'[last'.cache], last'.key)]_vars

\* A NORMAL call whose method threw, over a backend that holds an entry for
\* another key and none for the call's.
C29_Witness ==
    /\ CallIn(last, "ON")
    /\ last.src = Ret("throws", JsError) /\ last.ret = Ret("throws", JsError)
    /\ caches[last.cache] # EmptyCache
    /\ last.key \notin DOMAIN caches[last.cache]

\* C30: during and after a wrapped call fibonacci(5) through the NORMAL wrap
\* the body of fibonacci has run at most once for each argument.
C30_FibonacciBodyOncePerArgument ==
    (run.mode = "ON" /\ run.n = FibArg) => \A n \in FibArgs : run.counts[n] <= 1

\* C31: a NORMAL call of the synchronous method performs, when the backend has
\* no entry for the key, has then set and no other backend operation, and when
\* it has one, has then get and no other: a hit calls no set, a miss no get.
C31_MissHasSetHitHasGet ==
    [][(CallIn(last', "ON") /\ ~IsAsync(last'.m)) =>
        /\ InMemoryCache_has(caches[last'.cache], last'.key) =>
            (last'.ops = <<"has", "get">> /\ last'.invoked = 0)
        /\ ~InMemoryCache_has(caches[last'.cache], last'.key) =>
            (last'.ops = <<"has", "set">> /\ last'.invoked = 1)]_vars

\* The second of two identical NORMAL calls of the synchronous method: the
\* first was the miss that stored the entry, this one is the hit.
C31_Witness ==
    /\ CallIn(last, "ON") /\ ~IsAsync(last.m)
    /\ <<last.m, last.a>> \in DOMAIN called
    /\ last.ops = <<"has", "get">>
    /\ last.ret = called[<<last.m, last.a>>]

C33_LastContinuationWins ==
    /\ [][IsSettle(last') =>
            /\ last'.ret = last'.src
            /\ last'.src.k = "resolved" =>
                caches'.given = InMemoryCache_set(caches.given, last'.key, TaggedEntry(last'.src.v))
            /\ last'.src.k = "rejected" => caches' = caches]_vars
    /\ [](\A key \in DOMAIN lastResolved :
            ~BagIn(Pending("given", key), inflight) =>
                /\ InMemoryCache_has(caches.given, key)
                /\ caches.given[key] = TaggedEntry(lastResolved[key]))

\* Two identical calls were in flight together; the one issued second resolved
\* first; the one issued first has now resolved, to another value, and its
\* value is the entry.
C33_Witness ==
    /\ IsSettle(last) /\ last.src.k = "resolved" /\ last.overtaken
    /\ ~BagIn(Pending("given", last.key), inflight)
    /\ firstResolved[last.key] # last.src.v
    /\ caches.given[last.key] = TaggedEntry(last.src.v)

\* C34: over the in-memory backend a hit of the synchronous method, in NORMAL
\* or READ_ONLY mode, returns as a plain value exactly the value the entry
\* holds, which is the value the method returned when the entry was stored,
\* whatever that value is.
C34_SyncHitReturnsStoredValue ==
    [][(IsCall(last') /\ ~IsAsync(last'.m) /\ last'.ops = <<"has", "get">>) =>
        last'.ret = Plain(caches[last'.cache][last'.key])]_vars

\* C35: a NORMAL call over the file-backed backend whose entry file exists but
\* cannot be parsed invokes the method, returns what it returned (for a
\* promise, the promise whose continuation stores the value) and, when the
\* result is a plain value, leaves a readable entry for the key.
C35_CorruptEntryIsRecomputed ==
    [][(IsFileCall(last') /\ last'.mode = "ON"
            /\ FileSystemCache_has(caches.given, last'.key)
            /\ caches.given[getFilePath(last'.key)] = Corrupt) =>
        /\ last'.invoked = 1
        /\ last'.ret = IF IsPromise(last'.src) THEN ThenPromise ELSE last'.src
        /\ ~IsPromise(last'.src) => caches'.given[getFilePath(last'.key)] = JsonRoundTrip(last'.src.v)]_vars

\* The options are no object, or an object whose cache lacks a backend
\* method, whose mode is none of the four, or whose key is no function.
Malformed(options) ==
    \/ options.shape = "other"
    \/ /\ options.shape = "object"
       /\ \/ options.cache = "broken"
          \/ options.mode \notin Modes \cup {"absent"}
          \/ options.key = "notFunction"

ReachesFailing(e, c, failing) ==
    \/ e.mode \in {"ON", "READ_ONLY"} /\ "has" \in failing
    \/ e.mode \in {"ON", "READ_ONLY"} /\ InMemoryCache_has(c[e.cache], e.key) /\ "get" \in failing
    \/ /\ ~IsAsync(e.m) /\ "set" \in failing
       /\ e.mode = "UPDATE_ONLY" \/ (e.mode = "ON" /\ ~InMemoryCache_has(c[e.cache], e.key))

\* C37: a wrapped call that reaches a backend operation that throws gives the
\* caller the backend's error and changes neither the wraps nor the backends
\* nor the calls in flight; a continuation whose set throws rejects the
\* caller's promise with the error and stores nothing; and a NORMAL call that
\* reaches no throwing operation, whatever calls failed before it, is served
\* the entry when the key has one and otherwise invokes the method and, for a
\* synchronous method, returns and stores its result.
C37_BackendErrorLeavesNoState ==
    /\ [][IsCall(last') =>
            /\ ReachesFailing(last', caches, caches.failing) <=> last'.ret = Thrown(BackendError)
            /\ last'.ret = Thrown(BackendError) =>
                (proxies' = proxies /\ caches' = caches /\ inflight' = inflight)]_vars
    /\ [][(IsSettle(last') /\ last'.src.k = "resolved" /\ "set" \in caches.failing) =>
            (last'.ret = Rejected(BackendError) /\ caches' = caches /\ proxies' = proxies)]_vars
    /\ [][(CallIn(last', "ON") /\ ~ReachesFailing(last', caches, caches.failing)) =>
            /\ InMemoryCache_has(caches[last'.cache], last'.key) =>
                (last'.invoked = 0 /\ last'.ret = Served(caches[last'.cache], last'.key))
            /\ ~InMemoryCache_has(caches[last'.cache], last'.key) =>
                /\ last'.invoked = 1
                /\ ~IsAsync(last'.m) =>
                    (last'.ret = last'.src /\ caches'[last'.cache][last'.key] = last'.src.v)]_vars

\* The backend works again and a NORMAL call of the synchronous method, for a
\* key an earlier call of which a backend error ended, misses, invokes the
\* method and stores the result.
C37_Witness ==
    /\ CallIn(last, "ON") /\ ~IsAsync(last.m)
    /\ caches.failing = {}
    /\ last.key \in DOMAIN called
    /\ last.ops = <<"has", "set">>
    /\ last.ret = Plain(Num(1))
    /\ caches[last.cache][last.key] = Num(1)

C40_RemovedBetweenHasAndGet ==
    [][(lookup # NoLookup /\ lookup' = NoLookup
            /\ ~FileSystemCache_has(caches[lookup.wrap.cache], lookup.key)) =>
        /\ IsFileCall(last') /\ last'.mode \in {"ON", "READ_ONLY"} /\ last'.key = lookup.key
        /\ last'.ops = <<"has", "get">>
        /\ last'.invoked = 0
        /\ last'.ret = Plain(JsUndefined)
        /\ caches' = caches /\ inflight' = inflight]_vars

\* A NORMAL call of the asynchronous method has returned undefined after has
\* and get, and the key has no entry: it was removed between the two.
C40_Witness ==
    /\ IsFileCall(last) /\ last.mode = "ON" /\ IsAsync(last.m)
    /\ last.ops = <<"has", "get">>
    /\ last.ret = Plain(JsUndefined)
    /\ ~FileSystemCache_has(caches[last.cache], last.key)
    /\ lookup = NoLookup

====
